---- MODULE Spec2Model ----
(***************************************************************************)
(* Quantization dispatch and low-bit model lifecycle of                    *)
(* intel_extension_for_transformers/transformers/modeling/modeling_auto.py *)
(*                                                                         *)
(* Spec      : _BaseQBitsAutoModelClass.from_pretrained, the dispatcher,   *)
(*             with the load_low_bit call it makes on a saved checkpoint.  *)
(* SpecLoad  : _BaseQBitsAutoModelClass.load_low_bit called directly.      *)
(* SpecBuild : build_woq_model walking a module tree.                      *)
(* SpecCalib : the default tokenize_function / collate_batch functions.    *)
(* SpecRoundTrip : save_low_bit on a quantized model, then the reload of   *)
(*             the written directory through load_low_bit.                 *)
(***************************************************************************)
EXTENDS Integers, Sequences, FiniteSets, TLC

VARIABLES
    pc,                  \* position of the running call
    kwargs,              \* keyword arguments of the from_pretrained call
    config,              \* the checkpoint's model config (config.json)
    use_neural_speed,    \* local of from_pretrained, lines 386-409
    quantization_config, \* local quantization_config of the running frame
    model,               \* the model object being built / returned
    pathways,            \* pathways executed by the call, in order
    events,              \* observable steps of the call, in order
    llb,                 \* frame of load_low_bit
    tree,                \* module tree handed to build_woq_model
    walk,                \* build_woq_model: names still to visit, graph given
    calib,               \* calibration pipeline: record, settings, result
    slb,                 \* frame of save_low_bit
    disk                 \* the directory save_low_bit writes to

vars == <<pc, kwargs, config, use_neural_speed, quantization_config, model,
          pathways, events, llb, tree, walk, calib, slb, disk>>

saveVars == <<slb, disk>>

NULL == "None"

--------------------------------------------------------------------------
(* Value sets *)

\* quantization_config classes a caller can pass (lines 41-55), or none
WOQTags == {"rtn", "awq", "teq", "gptq", "autoround"}

FXTags == {"static", "dynamic", "qat"}

CallerTags == WOQTags \cup FXTags \cup {"sq", "mixed", "bnb", NULL}

\* device_map keyword: absent (None here), or a device.  from_pretrained reads
\* an absent one as "cpu" (line 365), load_low_bit as "auto" (line 1397).
DeviceMaps == {NULL, "cpu", "xpu", "cuda"}

\* cls.model_type_list, lines 275-295 (representatives) and a type outside it
model_type_list == {"llama", "bloom", "chatglm"}

\* cls.model_type_list_for_gptq, lines 297-308 (bloom is not in it)
model_type_list_for_gptq == {"llama", "chatglm"}

ModelTypes == model_type_list \cup {"t5"}

TorchDtypes == {"float32", "bfloat16", "float16"}

\* weight_dtype values accepted on reload, lines 1769-1776
RecognisedWeightDtypes ==
    {"int4_fullrange", "int4_clip", "int8", "fp8_e5m2", "fp8_e4m3", "nf4",
     "fp4_e2m1_bnb", "fp4_e2m1"}

\* ExemptSave without nf4
ExemptSaveNoNf4 == {"fp8_e5m2", "fp8_e4m3", "fp4", "int4_fullrange"}

\* dtypes exempt from the export conversion, lines 189-195, 1791-1797, 1844-1850
ExemptSave == {"fp8_e5m2", "fp8_e4m3", "nf4", "fp4", "int4_fullrange"}

ExemptSkeleton == {"fp8_e5m2", "fp8_e4m3", "fp4", "nf4", "int4_fullrange"}

ExemptRepack == {"fp8_e5m2", "fp8_e4m3", "nf4", "fp4", "int4_fullrange"}

--------------------------------------------------------------------------
(* Records *)

\* a quantization config object: the fields the code of this file reads
\* (hooks: the config methods applied to it so far, in order)
MkConfig(qm, wd, bits, cd, sd, gs) ==
    [quant_method |-> qm, weight_dtype |-> wd, bits |-> bits,
     compute_dtype |-> cd, scale_dtype |-> sd, group_size |-> gs,
     sym |-> TRUE, hooks |-> <<>>]

\* bits 0 and group_size 0 stand for an attribute that is None
NoConfig == MkConfig(NULL, NULL, 0, NULL, NULL, 0)

\* a module of a model graph.  kind is the module class; features, bias
\* presence and the packing parameters are those of the layer (0 / FALSE
\* where the class has none).  g_idx is the layer's group permutation (None
\* when it has none), transposed its weight_transposed flag.
MkModule(kind, inf, outf, bias, bits, gs, zp) ==
    [kind |-> kind, in_features |-> inf, out_features |-> outf, bias |-> bias,
     bits |-> bits, group_size |-> gs, zp |-> zp, g_idx |-> NULL,
     transposed |-> FALSE]

Linear(inf, outf, bias) == MkModule("Linear", inf, outf, bias, 0, 0, FALSE)

OtherModule == MkModule("Other", 0, 0, FALSE, 0, 0, FALSE)

NoTree == [n \in {} |-> OtherModule]

\* a model object: modules maps the qualified name of each leaf module to the
\* module (a qualified name is the sequence of its dot-separated parts);
\* has_qc says whether the attribute quantization_config was
\* assigned on the instance ("unset", "None" or "set", then qc holds it);
\* save_pretrained is "plain" (the class method), "save_low_bit" (bound on the
\* instance) or "absent" (a Neural Speed / compiled model has none);
\* device is where the parameters live
MkModel(kind) ==
    [kind |-> kind, has_qc |-> "unset", qc |-> NoConfig,
     save_pretrained |-> "plain", low_cpu_mem_usage |-> NULL,
     requires_grad |-> TRUE, float_cast |-> FALSE, eval_mode |-> FALSE,
     device |-> "cpu", modules |-> NoTree]

NoModel == MkModel(NULL)

\* model.quantization_config = quantization_config
\* (lines 455, 617, 691, 1010, 1161, 1312, 1885)
AttachConfig(m, qc) == [m EXCEPT !.has_qc = "set", !.qc = qc]

\* BindSaveLowBit with the assignment left out
BindSaveLowBitSkipped(m) == m

\* model.save_pretrained = types.MethodType(save_low_bit, model)
\* (lines 693, 1008, 1159, 1310, 1886)
BindSaveLowBit(m) == [m EXCEPT !.save_pretrained = "save_low_bit"]

\* neural_speed.Model(): not a transformers model, it has no save_pretrained
NeuralSpeedModel == [MkModel("neural_speed") EXCEPT !.save_pretrained = "absent"]

\* the checkpoint's config: has_qc is "absent" (no attribute), "null"
\* (attribute is None) or "dict" (saved holds the persisted mapping)
MkCheckpoint(mt, has, saved) ==
    [model_type |-> mt, has_qc |-> has, saved |-> saved]

NoCheckpoint == MkCheckpoint(NULL, "absent", NoConfig)

NoKwargs ==
    [model_file |-> FALSE, use_embedding_runtime |-> FALSE,
     quantization_config |-> NULL, device_map |-> NULL,
     use_llm_runtime |-> NULL, use_neural_speed |-> NULL,
     load_in_4bit |-> FALSE, load_in_8bit |-> FALSE, torch_dtype |-> NULL]

\* frame of a load_low_bit call: its keyword arguments (torch_dtype,
\* device_map, the two token arguments), the checkpoint location and the
\* weight files found there, the host's bf16 support, and its locals
MkLlb(caller, td, dm, tokens, where, files, safetensors, bf16, gen) ==
    [caller |-> caller, torch_dtype |-> td, device_map |-> dm,
     config_dtype |-> NULL,
     both_tokens |-> tokens, where |-> where, files |-> files,
     use_safetensors |-> safetensors, cpu_bf16 |-> bf16, has_generation |-> gen,
     is_sharded |-> FALSE, resolved |-> NULL, dtype_orig |-> NULL,
     default_dtype |-> "float32", error |-> NULL]

NoLlb == MkLlb(NULL, NULL, NULL, FALSE, NULL, {}, NULL, FALSE, FALSE)

\* the iteration of build_woq_model: todo holds the names named_modules()
\* has yet to yield, given the graph as it was when the call was made
NoWalk == [todo |-> {}, given |-> NoTree]

NoCalib == [op |-> NULL]

\* frame of a save_low_bit call: whether save_directory is an existing file,
\* push_to_hub, whether use_auth_token was given, and the module graph and
\* weight_dtype of the model as they were when the first call was made;
\* plain_saves counts the calls of the wrapped save_pretrained made by the
\* running call, depth the calls of save_low_bit made from inside
\* save_low_bit, saves the calls that have returned
NoSlb == [is_file |-> FALSE, push_to_hub |-> FALSE, use_auth_token |-> FALSE,
          before |-> NoTree, before_dtype |-> NULL,
          plain_saves |-> 0, depth |-> 0, saves |-> 0]

\* a directory: config.json's quantization_config entry (has_qc, qc), the
\* layers of the weights file, the weight files present, whether
\* all_checkpoint_keys.json is there and the names it lists, whether the
\* config's own JSON document is there
NoDisk == [has_qc |-> "absent", qc |-> NoConfig, weights |-> NoTree,
           files |-> {}, manifest |-> FALSE, keys |-> {}, qc_json |-> FALSE]

Log(e) == events' = events \o e

Ran(p) == pathways' = Append(pathways, p)

\* lines 365-367
use_cpu == kwargs.device_map \in {NULL, "cpu"}

use_xpu == kwargs.device_map = "xpu"

use_accel == ~use_cpu /\ ~use_xpu

\* a call is over: it returned a model, terminated the process (exit(0)),
\* or let an exception propagate to the caller
Done == pc \in {"returned", "exited", "raised"}

--------------------------------------------------------------------------
(* build_woq_model, lines 156-177 *)

\* A qualified module name is a string; here it is the sequence of its
\* pieces, "." and "_" included, so that Python's substring test `s in n`
\* is the test for a contiguous subsequence.
IsInfix(s, n) ==
    \E i \in 0..(Len(n) - Len(s)) : SubSeq(n, i + 1, i + Len(s)) = s

lm_head == <<"lm", "_", "head">>

output_layer == <<"output", "_", "layer">>

embed_out == <<"embed", "_", "out">>

\* NameExcluded with equality in place of the substring test
NameExcludedExact(n) == n \in {lm_head, output_layer, embed_out}

\* line 160: "lm_head" in n or "output_layer" in n or "embed_out" in n
NameExcluded(n) ==
    IsInfix(lm_head, n) \/ IsInfix(output_layer, n) \/ IsInfix(embed_out, n)

\* WoqLayer built with 4 bits and groups of 32 whatever the config says
WoqLayerFixedBits(m, qc) ==
    MkModule("WeightOnlyLinear", m.in_features, m.out_features, m.bias,
             4, 32, ~qc.sym)

\* lines 163-175: the packed layer that takes the place of Linear module m
WoqLayer(m, qc) ==
    MkModule("WeightOnlyLinear", m.in_features, m.out_features, m.bias,
             qc.bits, qc.group_size, ~qc.sym)

\* lines 160-176: what the loop body makes of module m named n
WoqVisit(n, m, qc) ==
    IF NameExcluded(n) THEN m
    ELSE IF m.kind = "Linear" THEN WoqLayer(m, qc)
    ELSE m

\* lines 156-177: the whole walk over the graph t
build_woq_model(t, qc) == [n \in DOMAIN t |-> WoqVisit(n, t[n], qc)]

--------------------------------------------------------------------------
(* from_pretrained, lines 311-1343 *)

\* lines 313-348: model_file given, a GGUF file is loaded by Neural Speed.
\* mt is kwargs["model_type"] or the repository's config.json entry
\* ("missing" when neither gives one).
FP_Gguf ==
    /\ pc = "fp_entry"
    /\ kwargs.model_file
    /\ \E mt \in ModelTypes \cup {"missing"} :
         IF mt \notin model_type_list
         THEN /\ pc' = "exited"
              /\ Log(<<"log_error">>)
              /\ UNCHANGED <<model, pathways>>
         ELSE /\ pc' = "returned"
              /\ model' = NeuralSpeedModel
              /\ Ran("gguf")
              /\ Log(<<"ns_init_from_bin">>)
    /\ UNCHANGED <<kwargs, config, use_neural_speed, quantization_config, llb,
                   tree, walk, calib>>
    /\ UNCHANGED saveVars

\* lines 350-363: the embedding runtime compiles the checkpoint
FP_Embedding ==
    /\ pc = "fp_entry"
    /\ ~kwargs.model_file
    /\ kwargs.use_embedding_runtime
    /\ pc' = "returned"
    /\ model' = [MkModel("compiled_graph") EXCEPT !.save_pretrained = "absent"]
    /\ Ran("embedding_runtime")
    /\ Log(<<"compile">>)
    /\ UNCHANGED <<kwargs, config, use_neural_speed, quantization_config, llb,
                   tree, walk, calib>>
    /\ UNCHANGED saveVars

\* persisted quantization_config mappings of the checkpoints a from_pretrained
\* call meets: every quant_method entry (also an absent and an unknown one)
\* with weight_dtype left to bits, and a valid and an invalid weight_dtype
FPSaved ==
    {MkConfig(qm, NULL, 4, NULL, NULL, 32) :
        qm \in WOQTags \cup FXTags \cup {"missing", "bogus"}}
    \cup {MkConfig("rtn", wd, 4, NULL, NULL, 32) : wd \in {"int8", "fp4"}}

\* checkpoints: dense ones of every model type (quantization_config absent,
\* or None), and saved low-bit ones
Checkpoints ==
    {MkCheckpoint(mt, "absent", NoConfig) : mt \in ModelTypes \cup {"missing"}}
    \cup {MkCheckpoint("llama", "null", NoConfig)}
    \cup {MkCheckpoint(mt, "dict", c) : mt \in {"llama", "t5"}, c \in FPSaved}

\* the two runtime keywords as a caller gives them: neither, either one, or
\* both with conflicting values
RuntimeKwargs ==
    {<<NULL, NULL>>, <<"True", NULL>>, <<"False", NULL>>, <<NULL, "True">>,
     <<NULL, "False">>, <<"False", "True">>}

\* lines 365-384: device flags, the checkpoint's config is loaded
FP_LoadConfig ==
    /\ pc = "fp_entry"
    /\ ~kwargs.model_file
    /\ ~kwargs.use_embedding_runtime
    /\ pc' = "fp_runtime"
    /\ config' \in Checkpoints
    /\ quantization_config' =
          [NoConfig EXCEPT !.quant_method = kwargs.quantization_config]
    /\ UNCHANGED <<kwargs, use_neural_speed, model, pathways, events, llb,
                   tree, walk, calib>>
    /\ UNCHANGED saveVars

\* RuntimeChoice with the deprecated keyword no longer honoured
RuntimeChoiceDeprecatedIgnored(llm, ns, xpu, mt, tag) ==
    IF ns # NULL THEN (IF ns = "True" /\ ~xpu THEN "True" ELSE "False")
    ELSE IF mt = "missing" THEN "exit"
    ELSE IF mt \in model_type_list /\ ~xpu
         THEN (IF tag = "gptq" /\ mt \notin model_type_list_for_gptq
               THEN "False" ELSE "True")
         ELSE "False"

\* RuntimeChoice with the device left out of the decision
RuntimeChoiceAnyDevice(llm, ns, xpu, mt, tag) ==
    IF llm # NULL THEN llm
    ELSE IF ns # NULL THEN ns
    ELSE IF mt = "missing" THEN "exit"
    ELSE IF mt \in model_type_list
         THEN (IF tag = "gptq" /\ mt \notin model_type_list_for_gptq
               THEN "False" ELSE "True")
         ELSE "False"

\* lines 386-409 as a function of what they read: the two keyword arguments,
\* the device, the model type and the class of the caller's config.
\* "exit" stands for logger.error + exit(0) at lines 394-398.
RuntimeChoice(llm, ns, xpu, mt, tag) ==
    IF llm # NULL THEN (IF llm = "True" /\ ~xpu THEN "True" ELSE "False")
    ELSE IF ns # NULL THEN (IF ns = "True" /\ ~xpu THEN "True" ELSE "False")
    ELSE IF mt = "missing" THEN "exit"
    ELSE IF mt \in model_type_list /\ ~xpu
         THEN (IF tag = "gptq" /\ mt \notin model_type_list_for_gptq
               THEN "False" ELSE "True")
         ELSE "False"

\* lines 386-409: use_neural_speed is settled
FP_Runtime ==
    /\ pc = "fp_runtime"
    /\ \E rk \in RuntimeKwargs :
         LET llm == rk[1]
             ns == rk[2]
             r == RuntimeChoice(llm, ns, use_xpu, config.model_type,
                                kwargs.quantization_config)
         IN  /\ kwargs' = [kwargs EXCEPT !.use_llm_runtime = llm,
                                         !.use_neural_speed = ns]
             /\ IF r = "exit"
                THEN /\ pc' = "exited"
                     /\ Log(<<"log_error">>)
                     /\ UNCHANGED use_neural_speed
                ELSE /\ pc' = "fp_saved"
                     /\ use_neural_speed' = (r = "True")
                     /\ UNCHANGED events
    /\ UNCHANGED <<config, quantization_config, model, pathways, llb,
                   tree, walk, calib>>
    /\ UNCHANGED saveVars

\* the caller asked for the Neural Speed runtime (either keyword set to True)
RuntimeRequested ==
    \/ kwargs.use_llm_runtime = "True"
    \/ kwargs.use_llm_runtime = NULL /\ kwargs.use_neural_speed = "True"

\* FP_Saved with the saved-checkpoint branch missing: every call goes on to
\* the dispatch
FP_SavedFallThrough ==
    /\ pc = "fp_saved"
    /\ pc' = "fp_flags"
    /\ UNCHANGED <<kwargs, config, use_neural_speed, quantization_config, model,
                   pathways, events, llb, tree, walk, calib>>
    /\ UNCHANGED saveVars

\* lines 411-478: a checkpoint that carries a quantization_config is reloaded
\* by Neural Speed or by load_low_bit; anything else goes on to the dispatch
FP_Saved ==
    /\ pc = "fp_saved"
    /\ UNCHANGED <<kwargs, config, use_neural_speed, tree, walk, calib>>
    /\ IF config.has_qc # "dict"
       THEN \* absent, or None (warning at 413)
            /\ pc' = "fp_flags"
            /\ UNCHANGED <<quantization_config, model, pathways, events, llb>>
       ELSE IF use_neural_speed /\ config.saved.quant_method = "missing"
       THEN \* line 417: KeyError on the mapping
            /\ pc' = "raised"
            /\ Log(<<"KeyError">>)
            /\ UNCHANGED <<quantization_config, model, pathways, llb>>
       ELSE IF use_neural_speed /\ config.saved.quant_method \notin FXTags
       THEN IF kwargs.quantization_config = NULL
            THEN IF config.saved.quant_method \notin WOQTags
                 THEN \* assert at 431
                      /\ pc' = "raised"
                      /\ Log(<<"AssertionError">>)
                      /\ UNCHANGED <<quantization_config, model, pathways, llb>>
                 ELSE LET qc == [config.saved EXCEPT
                                   !.hooks = <<"post_init_runtime">>]
                      IN  /\ pc' = "returned"
                          /\ quantization_config' = qc
                          /\ model' = AttachConfig(NeuralSpeedModel, qc)
                          /\ Ran("neural_speed_load")
                          /\ Log(<<"from_dict", "post_init_runtime", "ns_init",
                                   "attach_qc">>)
                          /\ UNCHANGED llb
            ELSE \* the caller's config object is used as it is; whether it
                 \* has the attributes read at 442-452 is up to its class
                 \E ok \in BOOLEAN :
                    IF ok
                    THEN /\ pc' = "returned"
                         /\ model' = AttachConfig(NeuralSpeedModel,
                                                  quantization_config)
                         /\ Ran("neural_speed_load")
                         /\ Log(<<"ns_init", "attach_qc">>)
                         /\ UNCHANGED <<quantization_config, llb>>
                    ELSE /\ pc' = "raised"
                         /\ Log(<<"AttributeError">>)
                         /\ UNCHANGED <<quantization_config, model, pathways, llb>>
       ELSE \* lines 461-467: cls.load_low_bit(name, config=config, **kwargs)
            /\ pc' = "llb_entry"
            /\ llb' \in {MkLlb("from_pretrained", "auto",
                                IF kwargs.device_map = NULL THEN "auto"
                                ELSE kwargs.device_map,
                                FALSE, "dir", {"bin"}, NULL, bf16, TRUE) :
                          bf16 \in {TRUE}}
            /\ UNCHANGED <<quantization_config, model, pathways, events>>
    /\ UNCHANGED saveVars

--------------------------------------------------------------------------
(* load_low_bit, lines 1346-1887 *)

\* an exception leaves load_low_bit: the from_pretrained call that made it
\* logs it and terminates the process (lines 473-478), a direct caller sees it
LLB_Fail(err) ==
    /\ llb' = [llb EXCEPT !.error = err]
    /\ IF llb.caller = "from_pretrained"
       THEN /\ pc' = "exited"
            /\ Log(<<err, "log_error">>)
       ELSE /\ pc' = "raised"
            /\ Log(<<err>>)

\* lines 1376-1453: keyword arguments are popped, the persisted mapping is
\* turned into a config object by the class its quant_method names
LLB_Config ==
    /\ pc = "llb_entry"
    /\ UNCHANGED <<kwargs, config, use_neural_speed, model, pathways, tree,
                   walk, calib>>
    /\ IF llb.both_tokens
       THEN LLB_Fail("ValueError") /\ UNCHANGED quantization_config
       ELSE IF config.has_qc = "absent"
       THEN \* line 1433: no config passed, or one without the attribute
            LLB_Fail("AttributeError") /\ UNCHANGED quantization_config
       ELSE IF config.has_qc = "null"
       THEN \* line 1435: None is subscripted
            LLB_Fail("TypeError") /\ UNCHANGED quantization_config
       ELSE IF config.saved.quant_method = "missing"
       THEN LLB_Fail("KeyError") /\ UNCHANGED quantization_config
       ELSE /\ pc' = "llb_resolve"
            /\ quantization_config' = config.saved
            /\ IF config.saved.quant_method \in WOQTags \cup FXTags
               THEN Log(<<"from_dict">>)
               ELSE UNCHANGED events  \* no branch taken: still the mapping
            /\ UNCHANGED llb
    /\ UNCHANGED saveVars

\* lines 1504-1666: the weights file of the checkpoint, by location
\* (where: "dir" a local directory, "file" a local file, "url", "hub" a
\* repository), the weight files there, and use_safetensors
\* (None, "True", "False").  status "unbound" is the read of archive_file
\* at line 1661 when no branch of 1508-1561 assigned it.
ResolveArchive(where, files, safetensors) ==
    IF where = "dir"
    THEN IF "bin" \in files THEN [status |-> "ok", sharded |-> FALSE, file |-> "bin"]
         ELSE IF "bin_index" \in files
              THEN [status |-> "ok", sharded |-> TRUE, file |-> "bin_index"]
         ELSE IF "safe" \in files
              THEN [status |-> "ok", sharded |-> FALSE, file |-> "safe"]
         ELSE IF "safe_index" \in files
              THEN [status |-> "ok", sharded |-> TRUE, file |-> "safe_index"]
         ELSE [status |-> "unbound", sharded |-> FALSE, file |-> NULL]
    ELSE IF where \in {"file", "url"}
    THEN [status |-> "ok", sharded |-> FALSE, file |-> "bin"]
    ELSE \* lines 1569-1646
         IF safetensors # "False" /\ "safe" \in files
         THEN [status |-> "ok", sharded |-> FALSE, file |-> "safe"]
         ELSE IF safetensors # "False" /\ "safe_index" \in files
         THEN [status |-> "ok", sharded |-> TRUE, file |-> "safe_index"]
         ELSE IF safetensors = "True"
         THEN [status |-> "EnvironmentError", sharded |-> FALSE, file |-> NULL]
         ELSE IF "bin" \in files
         THEN [status |-> "ok", sharded |-> FALSE, file |-> "bin"]
         ELSE IF "bin_index" \in files
         THEN [status |-> "ok", sharded |-> TRUE, file |-> "bin_index"]
         ELSE [status |-> "EnvironmentError", sharded |-> FALSE, file |-> NULL]

\* lines 1455-1686: checkpoint file resolution
LLB_Resolve ==
    /\ pc = "llb_resolve"
    /\ UNCHANGED <<kwargs, config, use_neural_speed, quantization_config, model,
                   pathways, tree, walk, calib>>
    /\ LET r == ResolveArchive(llb.where, llb.files, llb.use_safetensors)
       IN  IF r.status = "ok"
           THEN /\ pc' = "llb_instantiate"
                /\ llb' = [llb EXCEPT !.is_sharded = r.sharded,
                                      !.resolved = r.file]
                /\ Log(<<"resolve_checkpoint">>)
           ELSE IF r.status = "unbound"
           THEN LLB_Fail("UnboundLocalError")
           ELSE LLB_Fail("EnvironmentError")
    /\ UNCHANGED saveVars

\* the model class instantiated from the checkpoint's config (lines 1696,
\* 1789): one decoder projection, the generation head, an embedding
Arch ==
    (<<"layer", ".", "0", ".", "mlp">> :> Linear(768, 3072, FALSE))
    @@ (lm_head :> Linear(768, 32000, FALSE))
    @@ (<<"embed", "_", "tokens">> :> OtherModule)

\* convert_dtype_torch2str
convert_dtype_torch2str(td) ==
    CASE td = "float32" -> "fp32"
      [] td = "bfloat16" -> "bf16"
      [] td = "float16" -> "fp16"
      [] OTHER -> td

\* replace_linear(model, quantization_config, device, empty_weights=True):
\* dense or portable-format linear layers outside the excluded names become
\* internally packed layers of the same shape
replace_linear(t, qc) ==
    [n \in DOMAIN t |->
        IF NameExcluded(n) THEN t[n]
        ELSE IF t[n].kind = "Linear"
             THEN MkModule("QuantizedLinearQBits", t[n].in_features,
                           t[n].out_features, t[n].bias, qc.bits,
                           qc.group_size, ~qc.sym)
        ELSE IF t[n].kind = "WeightOnlyLinear"
             THEN [t[n] EXCEPT !.kind = "QuantizedLinearQBits"]
        ELSE t[n]]

\* lines 1695-1702: a static / dynamic / qat checkpoint is rebuilt by
\* neural_compressor's load and returned as it comes back
LLB_Instantiate ==
    /\ pc = "llb_instantiate"
    /\ UNCHANGED <<kwargs, config, use_neural_speed, quantization_config, tree,
                   walk, calib>>
    /\ IF quantization_config.quant_method \notin WOQTags \cup FXTags
       THEN \* still the raw mapping: it has no attribute quant_method
            LLB_Fail("AttributeError") /\ UNCHANGED <<model, pathways>>
       ELSE IF quantization_config.quant_method \in FXTags
       THEN /\ pc' = "returned"
            /\ model' = [MkModel("fx_quantized") EXCEPT !.modules = Arch]
            /\ Ran("load_low_bit")
            /\ Log(<<"model_class", "inc_load">>)
            /\ UNCHANGED llb
       ELSE /\ pc' = "llb_dtype"
            /\ UNCHANGED <<model, pathways, events, llb>>
    /\ UNCHANGED saveVars

\* lines 1704-1724: torch_dtype is settled and made the process default
LLB_Dtype ==
    /\ pc = "llb_dtype"
    /\ UNCHANGED <<kwargs, config, use_neural_speed, quantization_config, model,
                   pathways, tree, walk, calib>>
    /\ IF llb.torch_dtype = NULL
       THEN /\ pc' = "llb_compute"
            /\ UNCHANGED <<llb, events>>
       ELSE IF llb.torch_dtype \notin TorchDtypes \cup {"auto"}
       THEN \* a string other than "auto": assert False at 1720
            LLB_Fail("AssertionError")
       ELSE LET td == IF llb.torch_dtype # "auto" THEN llb.torch_dtype
                      ELSE IF llb.config_dtype # NULL THEN llb.config_dtype
                      ELSE "float32"
            IN  /\ pc' = "llb_compute"
                /\ llb' = [llb EXCEPT !.torch_dtype = td,
                                      !.dtype_orig = llb.default_dtype,
                                      !.default_dtype = td]
                /\ Log(<<"set_default_dtype">>)
    /\ UNCHANGED saveVars

\* lines 1725-1740 as a function: the compute_dtype the reload settles on
ResolveComputeDtype(cd, td, dm, bf16) ==
    IF cd = NULL
    THEN IF dm = "xpu"
         THEN (IF td = NULL \/ td = "bfloat16" THEN "fp16"
               ELSE convert_dtype_torch2str(td))
         ELSE (IF td = NULL \/ (~bf16 /\ td = "bfloat16") \/ td = "float16"
               THEN "fp32" ELSE convert_dtype_torch2str(td))
    ELSE IF (~bf16 /\ cd = "bf16") \/ (dm = "cpu" /\ cd = "fp16")
         THEN "fp32" ELSE cd

\* lines 1742-1747
ResolveScaleDtype(sd) ==
    IF sd = NULL THEN "fp32"
    ELSE IF sd \notin {"fp32", "fp16", "bf16"} THEN "fp32" ELSE sd

\* lines 1725-1747: compute_dtype and scale_dtype of the config
LLB_Compute ==
    /\ pc = "llb_compute"
    /\ pc' = "llb_weight"
    /\ quantization_config' =
          [quantization_config EXCEPT
             !.compute_dtype = ResolveComputeDtype(@, llb.torch_dtype,
                                                   llb.device_map, llb.cpu_bf16),
             !.scale_dtype = ResolveScaleDtype(@)]
    /\ UNCHANGED <<kwargs, config, use_neural_speed, model, pathways, events,
                   llb, tree, walk, calib>>
    /\ UNCHANGED saveVars

\* ResolveWeightDtype with the bits == 8 branch lost
ResolveWeightDtypeNoInt8(wd, bits) ==
    IF wd = NULL THEN "int4_clip"
    ELSE IF wd \notin RecognisedWeightDtypes THEN "ValueError"
    ELSE wd

\* ResolveWeightDtype rejecting bits other than 4 and 8
ResolveWeightDtypeStrictBits(wd, bits) ==
    IF wd = NULL
    THEN IF bits = 4 THEN "int4_clip"
         ELSE IF bits = 8 THEN "int8"
         ELSE "ValueError"
    ELSE IF wd \notin RecognisedWeightDtypes THEN "ValueError"
    ELSE wd

\* ResolveWeightDtype with bits given priority over weight_dtype
ResolveWeightDtypeBitsFirst(wd, bits) ==
    IF bits = 4 THEN "int4_clip"
    ELSE IF bits = 8 THEN "int8"
    ELSE IF wd = NULL THEN "int4_clip"
    ELSE IF wd \notin RecognisedWeightDtypes THEN "ValueError"
    ELSE wd

\* lines 1749-1783 as a function of the persisted weight_dtype and bits:
\* the weight_dtype the reload settles on, or "ValueError"
ResolveWeightDtype(wd, bits) ==
    IF wd = NULL
    THEN IF bits = 4 THEN "int4_clip"
         ELSE IF bits = 8 THEN "int8"
         ELSE "int4_clip"   \* warning at 1764-1767
    ELSE IF wd \notin RecognisedWeightDtypes THEN "ValueError"
    ELSE wd

\* lines 1749-1783: weight_dtype of the config
LLB_Weight ==
    /\ pc = "llb_weight"
    /\ UNCHANGED <<kwargs, config, use_neural_speed, model, pathways, tree,
                   walk, calib>>
    /\ LET wd == ResolveWeightDtype(quantization_config.weight_dtype,
                                    quantization_config.bits)
       IN  IF wd = "ValueError"
           THEN LLB_Fail("ValueError") /\ UNCHANGED quantization_config
           ELSE /\ pc' = "llb_skeleton"
                /\ quantization_config' =
                      [quantization_config EXCEPT !.weight_dtype = wd]
                /\ IF quantization_config.weight_dtype = NULL
                      /\ quantization_config.bits \notin {4, 8}
                   THEN Log(<<"log_warning">>)
                   ELSE UNCHANGED events
                /\ UNCHANGED llb
    /\ UNCHANGED saveVars

\* lines 1785-1805: the empty-weight skeleton and its first layer replacement
LLB_Skeleton ==
    /\ pc = "llb_skeleton"
    /\ pc' = "llb_state_dict"
    /\ model' =
          [MkModel("skeleton") EXCEPT
             !.modules =
                IF quantization_config.weight_dtype \notin ExemptSkeleton
                THEN build_woq_model(Arch, quantization_config)
                ELSE replace_linear(Arch, quantization_config)]
    /\ Log(<<"model_class",
             IF quantization_config.weight_dtype \notin ExemptSkeleton
             THEN "build_woq_model" ELSE "replace_linear">>)
    /\ UNCHANGED <<kwargs, config, use_neural_speed, quantization_config,
                   pathways, llb, tree, walk, calib>>
    /\ UNCHANGED saveVars

\* lines 1807-1816: the checkpoint's keys are read (the state dict of an
\* unsharded checkpoint is loaded, which fails on an unreadable file), then
\* the process default dtype is put back
LLB_StateDict ==
    /\ pc = "llb_state_dict"
    /\ UNCHANGED <<kwargs, config, use_neural_speed, quantization_config, model,
                   pathways, tree, walk, calib>>
    /\ \E readable \in BOOLEAN :
         IF ~llb.is_sharded /\ ~readable
         THEN LLB_Fail("OSError")
         ELSE /\ pc' = "llb_bind"
              /\ llb' = [llb EXCEPT !.default_dtype =
                                      IF llb.dtype_orig # NULL
                                      THEN llb.dtype_orig ELSE @]
              /\ Log(<<"load_state_dict">>)
    /\ UNCHANGED saveVars

\* lines 1817-1860: values are bound into the skeleton, the model is put in
\* evaluation mode and, outside the exempt dtypes, re-packed
LLB_Bind ==
    /\ pc = "llb_bind"
    /\ UNCHANGED <<kwargs, config, use_neural_speed, quantization_config,
                   pathways, tree, walk, calib>>
    /\ \E fits \in BOOLEAN :
         IF ~fits
         THEN LLB_Fail("RuntimeError") /\ UNCHANGED model
         ELSE /\ pc' = "llb_finish"
              /\ model' =
                    [model EXCEPT
                       !.eval_mode = TRUE,
                       !.float_cast =
                          quantization_config.weight_dtype \notin ExemptRepack,
                       !.modules =
                          IF quantization_config.weight_dtype \notin ExemptRepack
                          THEN replace_linear(@, quantization_config)
                          ELSE @]
              /\ Log(<<"load_pretrained_model", "tie_weights", "eval">>
                     \o (IF quantization_config.weight_dtype \notin ExemptRepack
                         THEN <<"replace_linear">> ELSE <<>>))
              /\ UNCHANGED llb
    /\ UNCHANGED saveVars

\* lines 1862-1887: generation config (best effort), parameters frozen,
\* quantization_config and save_low_bit attached, the model returned
LLB_Finish ==
    /\ pc = "llb_finish"
    /\ pc' = "returned"
    /\ model' = BindSaveLowBit(AttachConfig(
                  [model EXCEPT !.kind = "low_bit", !.requires_grad = FALSE,
                                !.device = IF llb.device_map = "xpu"
                                           THEN "xpu" ELSE @],
                  quantization_config))
    /\ Ran("load_low_bit")
    /\ Log((IF llb.has_generation THEN <<"generation_config">> ELSE <<>>)
           \o <<"freeze", "attach_qc", "bind_save">>)
    /\ UNCHANGED <<kwargs, config, use_neural_speed, quantization_config, llb,
                   tree, walk, calib>>
    /\ UNCHANGED saveVars

LoadNext ==
    \/ LLB_Config
    \/ LLB_Resolve
    \/ LLB_Instantiate
    \/ LLB_Dtype
    \/ LLB_Compute
    \/ LLB_Weight
    \/ LLB_Skeleton
    \/ LLB_StateDict
    \/ LLB_Bind
    \/ LLB_Finish

--------------------------------------------------------------------------
(* from_pretrained, lines 480-1343: the dispatch *)

\* FP_Flags with the return at line 492 missing
FP_FlagsFallThrough ==
    /\ pc = "fp_flags"
    /\ \E l4 \in BOOLEAN, l8 \in BOOLEAN :
         /\ kwargs' = [kwargs EXCEPT !.load_in_4bit = l4, !.load_in_8bit = l8]
         /\ pc' = IF l4 \/ l8 THEN "fp_load_in" ELSE "fp_dispatch"
         /\ IF quantization_config.quant_method = "bnb"
            THEN /\ model' = MkModel("bitsandbytes")
                 /\ Ran("bitsandbytes")
                 /\ Log(<<"orig_from_pretrained">>)
            ELSE UNCHANGED <<model, pathways, events>>
    /\ UNCHANGED <<config, use_neural_speed, quantization_config, llb, tree,
                   walk, calib>>
    /\ UNCHANGED saveVars

\* lines 482-492: the two flags are popped; a BitsAndBytesConfig goes
\* straight to the wrapped model-loading API
FP_Flags ==
    /\ pc = "fp_flags"
    /\ \E l4 \in BOOLEAN, l8 \in BOOLEAN :
         /\ kwargs' = [kwargs EXCEPT !.load_in_4bit = l4, !.load_in_8bit = l8]
         /\ IF quantization_config.quant_method = "bnb"
            THEN /\ pc' = "returned"
                 /\ model' = MkModel("bitsandbytes")
                 /\ Ran("bitsandbytes")
                 /\ Log(<<"orig_from_pretrained">>)
            ELSE /\ pc' = IF l4 \/ l8 THEN "fp_load_in" ELSE "fp_dispatch"
                 /\ UNCHANGED <<model, pathways, events>>
    /\ UNCHANGED <<config, use_neural_speed, quantization_config, llb, tree,
                   walk, calib>>
    /\ UNCHANGED saveVars

\* lines 521-556: the RtnConfig built for load_in_4bit / load_in_8bit when
\* the caller gave no config (td: the torch_dtype in effect, bf16: CpuInfo().bf16)
DefaultRtnConfig(l4, ns, cpu, td, bf16) ==
    LET cd == IF cpu /\ ~bf16 /\ td = "bfloat16" THEN "fp32"
              ELSE convert_dtype_torch2str(td)
    IN  IF l4
        THEN IF ns THEN MkConfig("rtn", "nf4", 0, "fp32", NULL, 0)
             ELSE MkConfig("rtn", IF cpu THEN "nf4" ELSE "int4_fullrange", 4,
                           cd, NULL, 0)
        ELSE IF ns
             THEN MkConfig("rtn", "int8", 0, IF bf16 THEN "bf16" ELSE "fp32",
                           NULL, 0)
             ELSE MkConfig("rtn", "int8", 8, cd, NULL, 0)

\* lines 493-561: load_in_4bit / load_in_8bit
FP_LoadIn ==
    /\ pc = "fp_load_in"
    /\ UNCHANGED <<config, use_neural_speed, llb, tree, walk, calib>>
    /\ \E bnb \in BOOLEAN, td \in TorchDtypes \cup {NULL}, bf16 \in BOOLEAN,
          ok \in BOOLEAN :
         LET tdv == IF td # NULL THEN td
                    ELSE IF use_xpu THEN "float16" ELSE "float32"
         IN  IF bnb /\ use_accel
             THEN \* lines 494-510
                  /\ pc' = "returned"
                  /\ model' = MkModel("bitsandbytes")
                  /\ Ran("bitsandbytes")
                  /\ Log(<<"orig_from_pretrained">>)
                  /\ UNCHANGED <<kwargs, quantization_config>>
             ELSE IF use_xpu /\ tdv # "float16"
             THEN \* assert at 517
                  /\ pc' = "raised"
                  /\ Log(<<"AssertionError">>)
                  /\ UNCHANGED <<kwargs, quantization_config, model, pathways>>
             ELSE IF quantization_config.quant_method = NULL
             THEN /\ pc' = "fp_dispatch"
                  /\ kwargs' = [kwargs EXCEPT !.torch_dtype =
                                    IF use_xpu THEN tdv ELSE @]  \* line 520
                  /\ quantization_config' =
                        DefaultRtnConfig(kwargs.load_in_4bit, use_neural_speed,
                                         use_cpu, tdv, bf16)
                  /\ UNCHANGED <<model, pathways, events>>
             ELSE IF ok
             THEN \* the asserts at 537-542, 558-561 on the caller's config hold
                  /\ pc' = "fp_dispatch"
                  /\ kwargs' = [kwargs EXCEPT !.torch_dtype =
                                    IF use_xpu THEN tdv ELSE @]  \* line 520
                  /\ UNCHANGED <<quantization_config, model, pathways, events>>
             ELSE /\ pc' = "raised"
                  /\ Log(<<"AssertionError">>)
                  /\ UNCHANGED <<kwargs, quantization_config, model, pathways>>
    /\ UNCHANGED saveVars

\* FloatCast applied to every model type
FloatCastAlways(cuda) == ~cuda \/ use_cpu

\* lines 673-678, 717-722, 987-992, 1034-1039, 1174-1179, 1335-1340:
\* a chatglm model is cast to float on a host without CUDA or on the CPU
FloatCast(cuda) == (~cuda \/ use_cpu) /\ config.model_type = "chatglm"

\* MixedPrecisionLoad retrying after any failure of the first attempt
MixedPrecisionLoadRetryAll(first, second) ==
    IF first = "ok"
    THEN [events |-> <<"dense_load_low_mem">>, low |-> "True", err |-> NULL]
    ELSE IF second = "ok"
         THEN [events |-> <<"dense_load_low_mem", first, "dense_load">>,
               low |-> "False", err |-> NULL]
         ELSE [events |-> <<"dense_load_low_mem", first, "dense_load", second>>,
               low |-> NULL, err |-> second]

\* lines 570-585: the dense load with low_cpu_mem_usage=True and, after
\* NotImplementedError, the load with low_cpu_mem_usage=False.  first and
\* second are what the two calls of the wrapped API do ("ok" or the exception
\* they raise); low is the value recorded in model.config, err the
\* exception that leaves the path.
MixedPrecisionLoad(first, second) ==
    IF first = "ok"
    THEN [events |-> <<"dense_load_low_mem">>, low |-> "True", err |-> NULL]
    ELSE IF first # "NotImplementedError"
    THEN [events |-> <<"dense_load_low_mem", first>>, low |-> NULL,
          err |-> first]
    ELSE IF second = "ok"
         THEN [events |-> <<"dense_load_low_mem", first, "dense_load">>,
               low |-> "False", err |-> NULL]
         ELSE [events |-> <<"dense_load_low_mem", first, "dense_load", second>>,
               low |-> NULL, err |-> second]

\* outcomes of one call of the wrapped model-loading API
LoadOutcomes == {"ok", "NotImplementedError", "OSError"}

\* lines 562-589
FP_MixedPrecision ==
    /\ pc = "fp_dispatch"
    /\ quantization_config.quant_method = "mixed"
    /\ UNCHANGED <<kwargs, config, use_neural_speed, quantization_config, llb,
                   tree, walk, calib>>
    /\ Ran("mixed_precision")
    /\ \E first \in LoadOutcomes, second \in LoadOutcomes :
         LET r == MixedPrecisionLoad(first, second)
         IN  IF r.err # NULL
             THEN /\ pc' = "raised"
                  /\ Log(r.events)
                  /\ UNCHANGED model
             ELSE /\ pc' = "returned"
                  /\ model' = [MkModel("dense") EXCEPT
                                 !.low_cpu_mem_usage = r.low,
                                 !.eval_mode = TRUE,
                                 !.modules = Arch]
                  /\ Log(r.events \o <<"to_cpu", "eval">>)
    /\ UNCHANGED saveVars

\* FP_WeightOnlyRuntime with the RTN test of lines 596-598 missing
FP_WeightOnlyRuntimeAnyTag ==
    /\ pc = "fp_dispatch"
    /\ quantization_config.quant_method \in WOQTags
    /\ use_neural_speed
    /\ UNCHANGED <<kwargs, config, use_neural_speed, llb, tree, walk, calib>>
    /\ LET qc == [quantization_config EXCEPT
                    !.hooks = Append(@, "post_init_runtime")]
       IN  /\ pc' = "returned"
           /\ quantization_config' = qc
           /\ model' = AttachConfig(NeuralSpeedModel, qc)
           /\ Ran("weight_only")
           /\ Log(<<"post_init_runtime", "ns_init", "attach_qc">>)
    /\ UNCHANGED saveVars

\* lines 590-618: weight-only quantization asked of Neural Speed
FP_WeightOnlyRuntime ==
    /\ pc = "fp_dispatch"
    /\ quantization_config.quant_method \in WOQTags
    /\ use_neural_speed
    /\ UNCHANGED <<kwargs, config, use_neural_speed, llb, tree, walk, calib>>
    /\ IF quantization_config.quant_method # "rtn"
       THEN \* lines 596-598
            /\ pc' = "exited"
            /\ Log(<<"log_error">>)
            /\ UNCHANGED <<quantization_config, model, pathways>>
       ELSE LET qc == [quantization_config EXCEPT
                         !.hooks = Append(@, "post_init_runtime")]
            IN  /\ pc' = "returned"
                /\ quantization_config' = qc
                /\ model' = AttachConfig(NeuralSpeedModel, qc)
                /\ Ran("weight_only")
                /\ Log(<<"post_init_runtime", "ns_init", "attach_qc">>)
    /\ UNCHANGED saveVars

\* DeviceHook with post_init_cpu on every target but xpu
DeviceHookCpuElse == IF use_xpu THEN <<"post_init_xpu">>
                     ELSE <<"post_init_cpu">>

\* lines 679-682: the device hook applied to the config before conversion
DeviceHook == IF use_cpu THEN <<"post_init_cpu">>
              ELSE IF use_xpu THEN <<"post_init_xpu">> ELSE <<>>

\* lines 619-694: weight-only quantization of the module graph
FP_WeightOnly ==
    /\ pc = "fp_dispatch"
    /\ quantization_config.quant_method \in WOQTags
    /\ ~use_neural_speed
    /\ UNCHANGED <<kwargs, config, use_neural_speed, llb, tree, walk, calib>>
    /\ Ran("weight_only")
    /\ \E low_mem \in BOOLEAN, xpu_there \in BOOLEAN, cuda \in BOOLEAN :
         LET load == IF use_xpu /\ ~low_mem
                     THEN <<"dense_load_low_mem", "NotImplementedError",
                            "dense_load", "eval">>
                     ELSE <<"dense_load_low_mem", "eval">>
             qc == [quantization_config EXCEPT
                      !.hooks = @ \o DeviceHook
                                  \o <<"remove_redundant_parameters">>]
         IN  IF use_xpu /\ ~xpu_there
             THEN \* assert at 669
                  /\ pc' = "raised"
                  /\ Log(load \o <<"AssertionError">>)
                  /\ UNCHANGED <<quantization_config, model>>
             ELSE /\ pc' = "returned"
                  /\ quantization_config' = qc
                  /\ model' = BindSaveLowBit(AttachConfig(
                                [MkModel("weight_only") EXCEPT
                                   !.low_cpu_mem_usage =
                                      IF use_xpu /\ ~low_mem THEN "False"
                                      ELSE "True",
                                   !.eval_mode = TRUE,
                                   !.float_cast = FloatCast(cuda),
                                   !.device = IF use_xpu THEN "xpu" ELSE @,
                                   !.modules = replace_linear(Arch, qc)], qc))
                  /\ Log(load
                         \o (IF FloatCast(cuda) THEN <<"float_cast">> ELSE <<>>)
                         \o DeviceHook
                         \o <<"convert_to_quantized_model",
                              "remove_redundant_parameters", "attach_qc",
                              "bind_save">>)
    /\ UNCHANGED saveVars

\* dense load shared by the calibrated paths (lines 708-723, 978-993,
\* 1025-1040, 1165-1179); QAT leaves out model.eval()
CalibLoad(cuda, with_eval) ==
    <<"dense_load_low_mem">>
    \o (IF FloatCast(cuda) THEN <<"float_cast">> ELSE <<>>)
    \o (IF with_eval THEN <<"eval">> ELSE <<>>)

\* lines 773-933, 1055-1141, 1194-1293: the default calibration / training
\* function is built from the tokenizer and the dataset
DefaultFunc == <<"load_dataset", "tokenize", "dataloader", "default_func">>

\* lines 695-976.  ipex: the import at 697 ("ok", "missing": ImportError is
\* caught and ipex stays unbound, "old": the version assert fails);
\* opt: the value ipex_opt_llm ends with at 738; cf, tok, ex: calib_func,
\* tokenizer, example_inputs given in the config; auto: alpha == "auto".
FP_SmoothQuant ==
    /\ pc = "fp_dispatch"
    /\ quantization_config.quant_method = "sq"
    /\ UNCHANGED <<kwargs, config, use_neural_speed, quantization_config, llb,
                   tree, walk, calib>>
    /\ Ran("smooth_quant")
    /\ \E ipex \in {"ok", "missing", "old"}, cuda \in BOOLEAN,
          opt \in BOOLEAN, cf \in BOOLEAN, tok \in BOOLEAN, ex \in BOOLEAN,
          auto \in BOOLEAN :
         LET loaded == CalibLoad(cuda, TRUE)
                       \o (IF opt THEN <<"ipex_optimize", "eval">> ELSE <<>>)
             calibrated == loaded \o (IF cf THEN <<>> ELSE DefaultFunc)
         IN  IF ipex # "ok"
             THEN /\ pc' = "raised"
                  /\ Log(<<IF ipex = "missing" THEN "UnboundLocalError"
                           ELSE "AssertionError">>)
                  /\ UNCHANGED model
             ELSE IF ~cf /\ ~tok
             THEN \* lines 763-771
                  /\ pc' = "exited"
                  /\ Log(loaded \o <<"log_error">>)
                  /\ UNCHANGED model
             ELSE IF cf /\ (~ex \/ auto)
             THEN \* calib_dataloader is read at 938 / 970 and was never bound
                  /\ pc' = "raised"
                  /\ Log(calibrated \o <<"UnboundLocalError">>)
                  /\ UNCHANGED model
             ELSE /\ pc' = "returned"
                  /\ model' = [MkModel("smooth_quant") EXCEPT
                                 !.eval_mode = TRUE,
                                 !.float_cast = FloatCast(cuda)]
                  /\ Log(calibrated
                         \o (IF ex THEN <<>> ELSE <<"example_inputs">>)
                         \o <<"fit">>)
    /\ UNCHANGED saveVars

\* lines 977-1012
FP_DynamicQuant ==
    /\ pc = "fp_dispatch"
    /\ quantization_config.quant_method = "dynamic"
    /\ UNCHANGED <<kwargs, config, use_neural_speed, llb, tree, walk, calib>>
    /\ Ran("dynamic_quant")
    /\ pc' = "returned"
    /\ \E cuda \in BOOLEAN :
         LET qc == [quantization_config EXCEPT
                      !.hooks = Append(@, "remove_redundant_parameters")]
         IN  /\ quantization_config' = qc
             /\ model' = AttachConfig(BindSaveLowBit(
                           [MkModel("fx_quantized") EXCEPT
                              !.eval_mode = TRUE,
                              !.float_cast = FloatCast(cuda)]), qc)
             /\ Log(CalibLoad(cuda, TRUE)
                    \o <<"fit", "bind_save", "remove_redundant_parameters",
                         "attach_qc">>)
    /\ UNCHANGED saveVars

\* lines 1013-1163.  ipex_backend: backend == "ipex"; ex, cf, tok as above.
FP_StaticQuant ==
    /\ pc = "fp_dispatch"
    /\ quantization_config.quant_method = "static"
    /\ UNCHANGED <<kwargs, config, use_neural_speed, llb, tree, walk, calib>>
    /\ Ran("static_quant")
    /\ \E ipex_backend \in BOOLEAN, cuda \in BOOLEAN, cf \in BOOLEAN,
          tok \in BOOLEAN, ex \in BOOLEAN :
         LET qc == [quantization_config EXCEPT
                      !.hooks = Append(@, "remove_redundant_parameters")]
         IN  IF ipex_backend /\ ~ex
             THEN \* assert at 1022
                  /\ pc' = "raised"
                  /\ Log(<<"AssertionError">>)
                  /\ UNCHANGED <<quantization_config, model>>
             ELSE IF ~cf /\ ~tok
             THEN \* lines 1045-1053
                  /\ pc' = "exited"
                  /\ Log(CalibLoad(cuda, TRUE) \o <<"log_error">>)
                  /\ UNCHANGED <<quantization_config, model>>
             ELSE /\ pc' = "returned"
                  /\ quantization_config' = qc
                  /\ model' = AttachConfig(BindSaveLowBit(
                                [MkModel("fx_quantized") EXCEPT
                                   !.eval_mode = TRUE,
                                   !.float_cast = FloatCast(cuda)]), qc)
                  /\ Log(CalibLoad(cuda, TRUE)
                         \o (IF cf THEN <<>> ELSE DefaultFunc)
                         \o <<"fit", "bind_save",
                              "remove_redundant_parameters", "attach_qc">>)
    /\ UNCHANGED saveVars

\* lines 1268-1286: what the default train_func does when it is called
DefaultTrainSteps == <<"SGD(lr=0.0001)", "model.train", "train_loop">>

\* QatSteps with on_train_end ahead of the training function
QatStepsEndFirst(tf) ==
    <<"prepare_compression", "on_train_begin", "on_train_end", "train_func">>
    \o (IF tf THEN <<"caller_train_func">> ELSE DefaultTrainSteps)
    \o <<"bind_save", "remove_redundant_parameters", "attach_qc">>

\* lines 1304-1314: the compression manager is prepared, train_func is
\* called on compression_manager.model between the two callbacks, the
\* manager's model is given the save method and the config and returned.
\* tf: the config carries a train_func of the caller's
QatSteps(tf) ==
    <<"prepare_compression", "on_train_begin", "train_func">>
    \o (IF tf THEN <<"caller_train_func">> ELSE DefaultTrainSteps)
    \o <<"on_train_end", "bind_save", "remove_redundant_parameters",
         "attach_qc">>

\* lines 1164-1314.  tf, tok: train_func, tokenizer given in the config.
FP_QuantAwareTraining ==
    /\ pc = "fp_dispatch"
    /\ quantization_config.quant_method = "qat"
    /\ UNCHANGED <<kwargs, config, use_neural_speed, llb, tree, walk, calib>>
    /\ Ran("quant_aware_training")
    /\ \E cuda \in BOOLEAN, tf \in BOOLEAN, tok \in BOOLEAN :
         LET qc == [quantization_config EXCEPT
                      !.hooks = Append(@, "remove_redundant_parameters")]
         IN  IF ~tf /\ ~tok
             THEN \* lines 1184-1192
                  /\ pc' = "exited"
                  /\ Log(CalibLoad(cuda, FALSE) \o <<"log_error">>)
                  /\ UNCHANGED <<quantization_config, model>>
             ELSE /\ pc' = "returned"
                  /\ quantization_config' = qc
                  /\ model' = AttachConfig(BindSaveLowBit(
                                [MkModel("fx_quantized") EXCEPT
                                   !.float_cast = FloatCast(cuda)]), qc)
                  /\ Log(CalibLoad(cuda, FALSE)
                         \o (IF tf THEN <<>> ELSE DefaultFunc)
                         \o QatSteps(tf))
    /\ UNCHANGED saveVars

\* lines 1315-1343: the else of the dispatch, no quantization config
FP_Plain ==
    /\ pc = "fp_dispatch"
    /\ quantization_config.quant_method
          \notin WOQTags \cup FXTags \cup {"mixed", "sq"}
    /\ UNCHANGED <<kwargs, config, use_neural_speed, quantization_config, llb,
                   tree, walk, calib>>
    /\ Ran("plain_load")
    /\ pc' = "returned"
    /\ IF use_neural_speed
       THEN /\ model' = [NeuralSpeedModel EXCEPT !.has_qc = "None"]
            /\ Log(<<"ns_init", "attach_qc">>)
       ELSE \E cuda \in BOOLEAN :
              /\ model' = [MkModel("dense") EXCEPT
                             !.eval_mode = TRUE,
                             !.float_cast = FloatCast(cuda)]
              /\ Log(<<"dense_load">>
                     \o (IF FloatCast(cuda) THEN <<"float_cast">> ELSE <<>>)
                     \o <<"eval">>)
    /\ UNCHANGED saveVars

FromPretrainedNext ==
    \/ FP_Gguf
    \/ FP_Embedding
    \/ FP_LoadConfig
    \/ FP_Runtime
    \/ FP_Saved
    \/ FP_Flags
    \/ FP_LoadIn
    \/ FP_MixedPrecision
    \/ FP_WeightOnlyRuntime
    \/ FP_WeightOnly
    \/ FP_SmoothQuant
    \/ FP_DynamicQuant
    \/ FP_StaticQuant
    \/ FP_QuantAwareTraining
    \/ FP_Plain

\* a from_pretrained call with its keyword arguments
CallArgs ==
    {[NoKwargs EXCEPT !.model_file = TRUE],
     [NoKwargs EXCEPT !.use_embedding_runtime = TRUE]}
    \cup {[NoKwargs EXCEPT !.quantization_config = t, !.device_map = d] :
             t \in CallerTags, d \in DeviceMaps}

Init ==
    /\ pc = "fp_entry"
    /\ kwargs \in CallArgs
    /\ config = NoCheckpoint
    /\ use_neural_speed = FALSE
    /\ quantization_config = NoConfig
    /\ model = NoModel
    /\ pathways = <<>>
    /\ events = <<>>
    /\ llb = NoLlb
    /\ tree = NoTree
    /\ walk = NoWalk
    /\ calib = NoCalib
    /\ slb = NoSlb
    /\ disk = NoDisk

Next == FromPretrainedNext \/ LoadNext

Spec == Init /\ [][Next]_vars

--------------------------------------------------------------------------
(* load_low_bit called directly on a saved directory *)

\* values of "bits" in a persisted mapping (0: the entry is null)
PersistedBits == {0, 2, 3, 4, 8}

\* values of "weight_dtype" in a persisted mapping: null, the recognised
\* names, and names the reload does not know
PersistedWeightDtypes == RecognisedWeightDtypes \cup {NULL, "fp4", "int3"}

PersistedComputeDtypes == {NULL, "fp32", "bf16", "fp16", "int8"}

PersistedScaleDtypes == {NULL, "fp32", "fp16", "bf16", "fp8"}

\* the frame of a call with the directory path alone: weights in
\* pytorch_model.bin, device_map and torch_dtype left to their defaults
\* (lines 1396-1397: torch_dtype "auto", device_map "auto")
PlainFrame == MkLlb("user", "auto", "auto", FALSE, "dir", {"bin"}, NULL, TRUE, TRUE)

\* persisted mappings and call frames of direct load_low_bit calls: every
\* weight_dtype with every bits on the plain frame; every quant_method; every
\* compute_dtype / scale_dtype with every torch_dtype, device and bf16
\* support; every checkpoint location and set of weight files; every
\* torch_dtype in config.json with a weight_dtype left out or unknown
LoadCalls ==
    {<<MkConfig("rtn", wd, b, NULL, NULL, 32), PlainFrame>> :
        wd \in PersistedWeightDtypes, b \in PersistedBits}
    \cup {<<MkConfig(qm, NULL, 4, NULL, NULL, 32), PlainFrame>> :
            qm \in WOQTags \cup FXTags \cup {"missing", "bogus"}}
    \cup {<<MkConfig("rtn", "int8", 8, cd, sd, 32),
            MkLlb("user", td, dm, FALSE, "dir", {"bin"}, NULL, bf16, TRUE)>> :
            cd \in PersistedComputeDtypes, sd \in PersistedScaleDtypes,
            td \in TorchDtypes \cup {NULL, "auto", "half"},
            dm \in {"auto", "cpu", "xpu"}, bf16 \in BOOLEAN}
    \cup {<<MkConfig("rtn", NULL, 4, NULL, NULL, 32),
            MkLlb("user", "auto", "auto", tokens, where, files, st, TRUE, gen)>> :
            tokens \in BOOLEAN, gen \in BOOLEAN,
            where \in {"dir", "file", "url", "hub"},
            files \in SUBSET {"bin", "bin_index", "safe", "safe_index"},
            st \in {NULL, "True", "False"}}
    \cup {<<MkConfig("rtn", wd, 4, NULL, NULL, 32),
            [PlainFrame EXCEPT !.config_dtype = td]>> :
            wd \in {NULL, "int3"}, td \in TorchDtypes}

InitLoad ==
    /\ pc = "llb_entry"
    /\ kwargs = NoKwargs
    /\ \/ \E call \in LoadCalls :
            /\ config = MkCheckpoint("llama", "dict", call[1])
            /\ llb = call[2]
       \/ /\ config \in {NoCheckpoint, MkCheckpoint("llama", "null", NoConfig)}
          /\ llb = PlainFrame
    /\ use_neural_speed = FALSE
    /\ quantization_config = NoConfig
    /\ model = NoModel
    /\ pathways = <<>>
    /\ events = <<>>
    /\ tree = NoTree
    /\ walk = NoWalk
    /\ calib = NoCalib
    /\ slb = NoSlb
    /\ disk = NoDisk

SpecLoad == InitLoad /\ [][LoadNext]_vars

--------------------------------------------------------------------------
(* save_low_bit, lines 180-270, and the reload of what it wrote *)

\* module.recover_qparms() of an internally packed layer: the parameters the
\* layer was packed with
recover_qparms(m) ==
    [groupsize |-> m.group_size, in_features |-> m.in_features,
     out_features |-> m.out_features, desc_act |-> m.g_idx # NULL,
     g_idx |-> m.g_idx, bits |-> m.bits, zp |-> m.zp]

\* RecoverLayer without lines 146-147
RecoverLayerDefaultGidx(m) ==
    LET q == recover_qparms(m)
    IN  [kind |-> "WeightOnlyLinear", in_features |-> q.in_features,
         out_features |-> q.out_features, bias |-> m.bias, bits |-> q.bits,
         group_size |-> q.groupsize, zp |-> q.zp,
         g_idx |-> IF q.desc_act THEN "default" ELSE NULL,
         transposed |-> FALSE]

\* lines 112-147: the portable layer put in the place of packed layer m.
\* The constructor allocates a g_idx buffer when desc_act is set, pack()
\* in the portable format does not fill it ("default"), lines 146-147
\* assign the recovered permutation.
RecoverLayer(m) ==
    LET q == recover_qparms(m)
    IN  [kind |-> "WeightOnlyLinear", in_features |-> q.in_features,
         out_features |-> q.out_features, bias |-> m.bias, bits |-> q.bits,
         group_size |-> q.groupsize, zp |-> q.zp,
         g_idx |-> IF q.g_idx # NULL THEN q.g_idx
                   ELSE IF q.desc_act THEN "default" ELSE NULL,
         transposed |-> FALSE]

\* lines 107-152: what the loop body makes of child module m
RecoverVisit(m) ==
    IF m.kind = "QuantizedLinearQBits" THEN RecoverLayer(m) ELSE m

\* lines 100-153: the walk over the children and, through the recursion at
\* 149-150, over every module below them
recover_export_model(t) == [n \in DOMAIN t |-> RecoverVisit(t[n])]

\* the quantization_config entry of the config.json that the wrapped
\* save_pretrained writes for model m
ConfigJson(m) == IF m.has_qc = "set" THEN m.qc ELSE NoConfig

\* lines 183-188: qweight and scales of every transposed
\* WeightOnlyQuantizedLinear are transposed back and the flag is cleared
Untranspose(t) ==
    [n \in DOMAIN t |->
        IF t[n].kind = "WeightOnlyQuantizedLinear" /\ t[n].transposed
        THEN [t[n] EXCEPT !.transposed = FALSE]
        ELSE t[n]]

\* lines 209-225: the guards, and the whole save of a PyTorchFXModel
SLB_Entry ==
    /\ pc = "slb_entry"
    /\ UNCHANGED <<kwargs, config, use_neural_speed, quantization_config, model,
                   pathways, llb, tree, walk, calib, slb>>
    /\ IF model.has_qc = "unset"
       THEN /\ pc' = "raised"
            /\ Log(<<"AssertionError">>)
            /\ UNCHANGED disk
       ELSE IF slb.is_file
       THEN /\ pc' = "slb_returned"
            /\ Log(<<"log_error">>)
            /\ UNCHANGED disk
       ELSE IF model.kind = "fx_quantized"
       THEN /\ pc' = "slb_returned"
            /\ disk' = [has_qc |-> "dict", qc |-> model.qc,
                        weights |-> model.modules, files |-> {"bin"},
                        manifest |-> FALSE, keys |-> {}, qc_json |-> TRUE]
            /\ Log(<<"save_qc_json", "save_config", "torch_save">>)
       ELSE /\ pc' = "slb_convert"
            /\ UNCHANGED <<events, disk>>

\* lines 226, 180-196: convert_model_to_public.  Line 182 compares
\* model.device, a torch.device, with a string: whether that is ever true
\* is up to the torch build, so on an xpu model either branch may run.
SLB_Convert ==
    /\ pc = "slb_convert"
    /\ UNCHANGED <<kwargs, config, use_neural_speed, quantization_config,
                   pathways, llb, tree, walk, calib, slb, disk>>
    /\ \E eq \in (IF model.device = "xpu" THEN BOOLEAN ELSE {FALSE}) :
         IF eq
         THEN /\ pc' = "slb_detach"
              /\ Log(<<"untranspose">>)
              /\ model' = [model EXCEPT !.modules = Untranspose(@)]
         ELSE IF model.has_qc # "set"
         THEN \* quantization_config is None: it has no weight_dtype
              /\ pc' = "raised"
              /\ Log(<<"AttributeError">>)
              /\ UNCHANGED model
         ELSE IF model.qc.weight_dtype \notin ExemptSave
         THEN /\ pc' = "slb_detach"
              /\ model' = [model EXCEPT !.modules = recover_export_model(@)]
              /\ Log(<<"recover_export_model">>)
         ELSE /\ pc' = "slb_detach"
              /\ UNCHANGED <<model, events>>

\* DetachSave with the del left out
DetachSaveSkipped(m) == m

\* line 229, del self.save_pretrained: the instance attribute goes and the
\* name resolves to the class's save_pretrained again
DetachSave(m) == [m EXCEPT !.save_pretrained = "plain"]

\* lines 227-229: the directory is made and the bound method is taken off
\* the instance
SLB_Detach ==
    /\ pc = "slb_detach"
    /\ UNCHANGED <<kwargs, config, use_neural_speed, quantization_config,
                   pathways, llb, tree, walk, calib, slb, disk>>
    /\ IF model.save_pretrained # "save_low_bit"
       THEN \* del of an attribute the instance does not have
            /\ pc' = "raised"
            /\ Log(<<"makedirs", "AttributeError">>)
            /\ UNCHANGED model
       ELSE /\ pc' = "slb_write"
            /\ model' = DetachSave(model)
            /\ Log(<<"makedirs", "del_save">>)

\* lines 230-233: make_contiguous, then self.save_pretrained(...).  What the
\* name resolves to decides what runs: the class's save_pretrained writes
\* config.json and the weights (files: the weight files it made; it can
\* fail on the file system); an instance attribute still bound to
\* save_low_bit calls save_low_bit again, and again from there, until the
\* interpreter raises RecursionError.
SLB_Write ==
    /\ pc = "slb_write"
    /\ UNCHANGED <<kwargs, config, use_neural_speed, quantization_config,
                   model, pathways, llb, tree, walk, calib>>
    /\ IF model.save_pretrained = "save_low_bit"
       THEN /\ pc' = "raised"
            /\ slb' = [slb EXCEPT !.depth = @ + 1]
            /\ Log(<<"make_contiguous", "save_low_bit", "RecursionError">>)
            /\ UNCHANGED disk
       ELSE \E files \in {{"bin"}, {"safe"}, {"bin_index"}, {}} :
              IF files = {}
              THEN /\ pc' = "raised"
                   /\ slb' = [slb EXCEPT !.plain_saves = @ + 1]
                   /\ Log(<<"make_contiguous", "save_pretrained", "OSError">>)
                   /\ UNCHANGED disk
              ELSE /\ pc' = "slb_rebind"
                   /\ slb' = [slb EXCEPT !.plain_saves = @ + 1]
                   /\ disk' = [has_qc |-> IF model.has_qc = "set" THEN "dict"
                                          ELSE "absent",
                               qc |-> ConfigJson(model),
                               weights |-> model.modules, files |-> files,
                               manifest |-> FALSE, keys |-> {},
                               qc_json |-> FALSE]
                   /\ Log(<<"make_contiguous", "save_pretrained">>)

\* lines 234-242: save_low_bit is bound on the instance again and the names
\* of the state dict are written to all_checkpoint_keys.json
SLB_Rebind ==
    /\ pc = "slb_rebind"
    /\ pc' = "slb_finish"
    /\ model' = BindSaveLowBit(model)
    /\ disk' = [disk EXCEPT !.manifest = TRUE, !.keys = DOMAIN model.modules]
    /\ Log(<<"bind_save", "manifest">>)
    /\ UNCHANGED <<kwargs, config, use_neural_speed, quantization_config,
                   pathways, llb, tree, walk, calib, slb>>

\* SLB_Finish with line 270 missing: the config's JSON document is not written
SLB_FinishNoConfig ==
    /\ pc = "slb_finish"
    /\ UNCHANGED <<kwargs, config, use_neural_speed, quantization_config, model,
                   pathways, llb, tree, walk, calib, slb, disk>>
    /\ IF slb.push_to_hub
       THEN /\ pc' = "raised"
            /\ Log(<<IF slb.use_auth_token THEN "AttributeError"
                     ELSE "UnboundLocalError">>)
       ELSE /\ pc' = "slb_returned"
            /\ UNCHANGED events

\* lines 243-270: push_to_hub, then the config's own JSON document.
\* token is a local that nothing has assigned when line 251 or 257 reads it,
\* and logger.warning has no attribute warn.
SLB_Finish ==
    /\ pc = "slb_finish"
    /\ UNCHANGED <<kwargs, config, use_neural_speed, quantization_config, model,
                   pathways, llb, tree, walk, calib, slb>>
    /\ IF slb.push_to_hub
       THEN /\ pc' = "raised"
            /\ Log(<<IF slb.use_auth_token THEN "AttributeError"
                     ELSE "UnboundLocalError">>)
            /\ UNCHANGED disk
       ELSE /\ pc' = "slb_returned"
            /\ disk' = [disk EXCEPT !.qc_json = TRUE]
            /\ Log(<<"save_qc_json">>)

\* most consecutive save_low_bit calls made on one model
MaxSaves == 3

\* model.save_pretrained(save_directory) is called once more on the model a
\* save has returned from: the bound save_low_bit runs again
SLB_Again ==
    /\ pc = "slb_returned"
    /\ model.save_pretrained = "save_low_bit"
    /\ slb.saves + 1 < MaxSaves
    /\ pc' = "slb_entry"
    /\ slb' = [slb EXCEPT !.saves = @ + 1, !.plain_saves = 0]
    /\ events' = <<>>
    /\ UNCHANGED <<kwargs, config, use_neural_speed, quantization_config, model,
                   pathways, llb, tree, walk, calib, disk>>

\* the saved directory is reloaded: from_pretrained finds the persisted
\* quantization_config in config.json and calls load_low_bit (lines 411-467)
Reload ==
    /\ pc \in {"slb_returned", "raised"}
    /\ disk.files # {}
    /\ llb = NoLlb
    /\ pc' = "llb_entry"
    /\ config' = MkCheckpoint("llama", disk.has_qc, disk.qc)
    /\ llb' = MkLlb("user", "auto", "auto", FALSE, "dir", disk.files, NULL,
                    TRUE, TRUE)
    /\ model' = NoModel
    /\ quantization_config' = NoConfig
    /\ Log(<<"reload">>)
    /\ UNCHANGED <<kwargs, use_neural_speed, pathways, tree, walk, calib, slb,
                   disk>>

SaveNext ==
    \/ SLB_Entry
    \/ SLB_Convert
    \/ SLB_Detach
    \/ SLB_Write
    \/ SLB_Rebind
    \/ SLB_Finish
    \/ SLB_Again

\* configs of the quantized models that are saved: every recognised
\* weight_dtype, 4 and 8 bits, two group sizes
SaveConfigs ==
    {MkConfig("rtn", wd, b, "fp32", "fp32", gs) :
        wd \in RecognisedWeightDtypes, b \in {4, 8}, gs \in {32, 128}}

\* the model from_pretrained returns for config qc on the CPU (lines 619-694)
QuantizedModel(qc) ==
    BindSaveLowBit(AttachConfig(
        [MkModel("weight_only") EXCEPT !.low_cpu_mem_usage = "True",
                                       !.eval_mode = TRUE,
                                       !.modules = replace_linear(Arch, qc)],
        qc))

\* the model from_pretrained returns for device_map "xpu" (lines 619-694,
\* 183-188): its packed layers are WeightOnlyQuantizedLinear modules that
\* keep qweight and scales transposed
XpuQuantizedModel ==
    LET qc == MkConfig("rtn", "int4_fullrange", 4, "fp16", "fp16", 32)
    IN  [QuantizedModel(qc) EXCEPT
           !.device = "xpu",
           !.modules = [n \in DOMAIN @ |->
                          IF @[n].kind = "QuantizedLinearQBits"
                          THEN [@[n] EXCEPT
                                  !.kind = "WeightOnlyQuantizedLinear",
                                  !.transposed = TRUE]
                          ELSE @[n]]]

\* models save_low_bit is called on: quantized ones, one produced by the
\* static path (lines 1159-1161), a dense one it was never bound on
SavedModels ==
    {QuantizedModel(qc) : qc \in SaveConfigs}
    \cup {XpuQuantizedModel,
          AttachConfig(BindSaveLowBit(MkModel("fx_quantized")),
                       MkConfig("static", NULL, 0, NULL, NULL, 0)),
          MkModel("dense")}

InitSave ==
    /\ pc = "slb_entry"
    /\ model \in SavedModels
    /\ slb \in [is_file : BOOLEAN, push_to_hub : BOOLEAN,
                use_auth_token : BOOLEAN, before : {model.modules},
                before_dtype : {model.qc.weight_dtype},
                plain_saves : {0}, depth : {0}, saves : {0}]
    /\ quantization_config = model.qc
    /\ disk = NoDisk
    /\ kwargs = NoKwargs
    /\ config = NoCheckpoint
    /\ use_neural_speed = FALSE
    /\ pathways = <<>>
    /\ events = <<>>
    /\ llb = NoLlb
    /\ tree = NoTree
    /\ walk = NoWalk
    /\ calib = NoCalib

\* a model is saved with save_low_bit and the directory is loaded again
SpecRoundTrip == InitSave /\ [][SaveNext \/ Reload \/ LoadNext]_vars

--------------------------------------------------------------------------
(* build_woq_model on a module tree *)

\* most modules a drawn tree holds
MaxModules == 2

\* qualified names of the modules of the drawn trees
ModuleNames ==
    {lm_head,
     <<"model", ".", "lm", "_", "head">>,
     <<"transformer", ".", "output", "_", "layer">>,
     embed_out,
     <<"my", "_", "lm", "_", "head", "_", "2">>,
     <<"lm", "_", "head", ".", "dense">>,
     <<"lm", ".", "head">>,
     <<"output", ".", "layer">>,
     <<"layer", ".", "0", ".", "mlp">>,
     <<"embed", "_", "tokens">>,
     <<"head">>}

ModuleChoices == {Linear(768, 3072, TRUE), Linear(16, 8, FALSE), OtherModule}

ModuleTrees ==
    UNION {[S -> ModuleChoices] :
             S \in {T \in SUBSET ModuleNames : Cardinality(T) <= MaxModules}}

\* the configs handed to build_woq_model: bits, group_size, sym
BuildConfigs ==
    {MkConfig("rtn", "int4_clip", 4, "fp32", "fp32", 32),
     [MkConfig("gptq", "int8", 8, "fp32", "fp32", 128) EXCEPT !.sym = FALSE]}

\* lines 159-176: named_modules() yields one module, the loop body runs on it
BWM_Visit ==
    /\ pc = "bwm_loop"
    /\ \E n \in walk.todo :
         /\ tree' = [tree EXCEPT ![n] = WoqVisit(n, @, quantization_config)]
         /\ walk' = [walk EXCEPT !.todo = @ \ {n}]
    /\ UNCHANGED <<pc, kwargs, config, use_neural_speed, quantization_config,
                   model, pathways, events, llb, calib>>
    /\ UNCHANGED saveVars

\* line 177
BWM_Return ==
    /\ pc = "bwm_loop"
    /\ walk.todo = {}
    /\ pc' = "bwm_returned"
    /\ UNCHANGED <<kwargs, config, use_neural_speed, quantization_config, model,
                   pathways, events, llb, tree, walk, calib>>
    /\ UNCHANGED saveVars

BuildNext == BWM_Visit \/ BWM_Return

InitBuild ==
    /\ pc = "bwm_loop"
    /\ tree \in ModuleTrees
    /\ walk = [todo |-> DOMAIN tree, given |-> tree]
    /\ quantization_config \in BuildConfigs
    /\ kwargs = NoKwargs
    /\ config = NoCheckpoint
    /\ use_neural_speed = FALSE
    /\ model = NoModel
    /\ pathways = <<>>
    /\ events = <<>>
    /\ llb = NoLlb
    /\ calib = NoCalib
    /\ slb = NoSlb
    /\ disk = NoDisk

\* build_woq_model called on a module tree, and called by load_low_bit
SpecBuild == (InitBuild \/ InitLoad) /\ [][BuildNext \/ LoadNext]_vars

--------------------------------------------------------------------------
(* The default calibration pipeline, lines 773-933, 1055-1141, 1194-1293 *)

\* longest tokenized record drawn
MaxRecordLen == 4

\* largest calib_len / train_len drawn
MaxCalibLen == 3

\* fields a dataset record can have
RecordFields == {"code", "prompt", "text"}

\* tokenizer(examples[f]) for a field whose text has n tokens: the token ids
\* of the three fields are kept apart
Tokenizer(f, n) ==
    [i \in 1..n |-> i + (CASE f = "code" -> 100
                           [] f = "prompt" -> 200
                           [] OTHER -> 300)]

\* tokenize_function without the prompt branch
tokenize_functionNoPrompt(fields) ==
    IF "code" \in fields THEN "code"
    ELSE IF "text" \in fields THEN "text"
    ELSE "exit"

\* lines 795-808, 1077-1090, 1216-1229: the field tokenize_function reads,
\* "exit" for logger.error + exit(0)
tokenize_function(fields) ==
    IF "code" \in fields THEN "code"
    ELSE IF "prompt" \in fields THEN "prompt"
    ELSE IF "text" \in fields THEN "text"
    ELSE "exit"

\* torch.nn.functional.pad(ids, (0, pad_len), value=val) on a 1-d tensor:
\* a negative pad_len crops at the end
pad(ids, pad_len, val) ==
    IF pad_len >= 0 THEN ids \o [i \in 1..pad_len |-> val]
    ELSE SubSeq(ids, 1, Len(ids) + pad_len)

\* lines 816-827, 1096-1107, 1235-1246: input_ids of the one record of a batch
collate_batch(ids, padding, len, val) ==
    IF ~padding
    THEN (IF Len(ids) > len THEN SubSeq(ids, 1, len) ELSE ids)
    ELSE pad(ids, len - Len(ids), val)

\* lines 862-878: input_ids of the one record of a chatglm batch;
\* is6b: "THUDM/chatglm-6b" is found in config.auto_map["AutoConfig"]
collate_batch_for_chatglm(ids, len, is6b) ==
    LET cut == IF Len(ids) > len THEN SubSeq(ids, 1, len) ELSE ids
    IN  IF is6b THEN cut \o <<130001, 130004>> ELSE cut

\* lines 830-834: length of the attention mask built beside input_ids
AttentionMaskLen(model_type, ids) ==
    IF model_type \in {"bloom", "qwen"} THEN Len(ids) + 1 ELSE Len(ids)

\* a pipeline about to tokenize one record: the path it belongs to, the
\* model, the record (its fields and the token count of its text), and the
\* calib_* / train_* settings of the config
CalibRuns ==
    [op : {"tokenize"},
     path : {"smooth_quant", "static_quant", "quant_aware_training"},
     model_type : {"llama", "bloom", "qwen", "chatglm"},
     is6b : BOOLEAN,
     fields : SUBSET RecordFields,
     record_len : 1..MaxRecordLen,
     calib_len : 1..MaxCalibLen,
     calib_padding : BOOLEAN,
     calib_pad_val : {0},
     source : {NULL},
     example : {<<>>},
     input_ids : {<<>>},
     attention_mask : {0},
     last_ind : {0}]

\* dataset.map(tokenize_function): one record is tokenized
CAL_Tokenize ==
    /\ pc = "cal_tokenize"
    /\ LET f == tokenize_function(calib.fields)
       IN  IF f = "exit"
           THEN /\ pc' = "exited"
                /\ Log(<<"log_error">>)
                /\ UNCHANGED calib
           ELSE /\ pc' = "cal_collate"
                /\ calib' = [calib EXCEPT
                               !.op = "collate",
                               !.source = f,
                               !.example = Tokenizer(f, calib.record_len)]
                /\ UNCHANGED events
    /\ UNCHANGED <<kwargs, config, use_neural_speed, quantization_config, model,
                   pathways, llb, tree, walk>>
    /\ UNCHANGED saveVars

\* lines 894-907: only SmoothQuant gives chatglm a collate function of its own
UsesChatglmCollate ==
    calib.path = "smooth_quant" /\ calib.model_type = "chatglm"

\* the DataLoader hands the record to collate_batch
CAL_Collate ==
    /\ pc = "cal_collate"
    /\ ~UsesChatglmCollate
    /\ pc' = "cal_batch"
    /\ LET ids == collate_batch(calib.example, calib.calib_padding,
                                calib.calib_len, calib.calib_pad_val)
       IN  calib' = [calib EXCEPT
                       !.op = "batch",
                       !.input_ids = ids,
                       !.attention_mask =
                          IF calib.path = "smooth_quant"
                          THEN AttentionMaskLen(calib.model_type, ids) ELSE 0,
                       !.last_ind = Len(ids) - 1]
    /\ UNCHANGED <<kwargs, config, use_neural_speed, quantization_config, model,
                   pathways, events, llb, tree, walk>>
    /\ UNCHANGED saveVars

\* the DataLoader hands the record to collate_batch_for_chatglm
CAL_CollateChatglm ==
    /\ pc = "cal_collate"
    /\ UsesChatglmCollate
    /\ pc' = "cal_batch"
    /\ LET ids == collate_batch_for_chatglm(calib.example, calib.calib_len,
                                            calib.is6b)
       IN  calib' = [calib EXCEPT
                       !.op = "batch",
                       !.input_ids = ids,
                       !.attention_mask = Len(ids),
                       !.last_ind = Len(ids) - 1]
    /\ UNCHANGED <<kwargs, config, use_neural_speed, quantization_config, model,
                   pathways, events, llb, tree, walk>>
    /\ UNCHANGED saveVars

CalibNext == CAL_Tokenize \/ CAL_Collate \/ CAL_CollateChatglm

InitCalib ==
    /\ pc = "cal_tokenize"
    /\ calib \in {c \in CalibRuns : c.is6b => c.model_type = "chatglm"}
    /\ kwargs = NoKwargs
    /\ config = NoCheckpoint
    /\ use_neural_speed = FALSE
    /\ quantization_config = NoConfig
    /\ model = NoModel
    /\ pathways = <<>>
    /\ events = <<>>
    /\ llb = NoLlb
    /\ tree = NoTree
    /\ walk = NoWalk
    /\ slb = NoSlb
    /\ disk = NoDisk

SpecCalib == InitCalib /\ [][CalibNext]_vars

--------------------------------------------------------------------------
(* Properties of from_pretrained *)

\* the checkpoint read by the call is dense: it carries no saved
\* quantization_config (the attribute is absent or None)
DenseCheckpoint == pc # "fp_entry" /\ config.has_qc # "dict"

NonRtnRequest ==
    /\ DenseCheckpoint
    /\ RuntimeRequested
    /\ kwargs.quantization_config \in WOQTags \ {"rtn"}

InEvents(e) == \E i \in 1..Len(events) : events[i] = e

LastEvent == IF events = <<>> THEN NULL ELSE events[Len(events)]

DispatcherPaths ==
    {"weight_only", "mixed_precision", "smooth_quant", "static_quant",
     "dynamic_quant", "quant_aware_training", "bitsandbytes", "plain_load"}

ReturnedBy(paths) ==
    pc = "returned" /\ pathways # <<>> /\ pathways[Len(pathways)] \in paths

\* C2 as stated: every model returned on a dispatcher path carries
\* quantization_config and has save_low_bit bound as save_pretrained.
C2_AsStated ==
    ReturnedBy(DispatcherPaths) =>
        (model.has_qc = "set" /\ model.save_pretrained = "save_low_bit")

\* C2 amended: the models returned by the module-graph weight-only path and
\* by the DynamicQuant, StaticQuant and QuantAwareTraining paths carry the
\* resolved quantization_config and have save_low_bit bound; the Neural
\* Speed weight-only model carries the config but no save_low_bit; the
\* MixedPrecision, SmoothQuant, BitsAndBytes and plain-load models are
\* returned with neither the config attached nor save_low_bit bound.
C2_TaggedPaths ==
    /\ ReturnedBy({"static_quant", "dynamic_quant", "quant_aware_training"})
          => /\ model.has_qc = "set"
             /\ model.qc = quantization_config
             /\ model.save_pretrained = "save_low_bit"
    /\ ReturnedBy({"weight_only"})
          => /\ model.has_qc = "set"
             /\ model.qc = quantization_config
             /\ (model.save_pretrained = "save_low_bit") = ~use_neural_speed
    /\ ReturnedBy({"mixed_precision", "smooth_quant", "bitsandbytes",
                   "plain_load"})
          => /\ model.has_qc # "set"
             /\ model.save_pretrained # "save_low_bit"

\* C2 witness: a DynamicQuant model came back tagged and bound
C2_Witness ==
    /\ ReturnedBy({"dynamic_quant"})
    /\ model.has_qc = "set"
    /\ model.qc.quant_method = "dynamic"
    /\ model.save_pretrained = "save_low_bit"

\* the pathways C3 names
NamedPathways ==
    DispatcherPaths \cup {"gguf", "neural_speed_load", "load_low_bit"}

--------------------------------------------------------------------------
(* Properties of load_low_bit *)

\* positions of load_low_bit after the weight_dtype step (lines 1749-1783)
AfterWeight ==
    {"llb_skeleton", "llb_state_dict", "llb_bind", "llb_finish", "returned"}

\* the model class was instantiated (line 1789): a skeleton exists
SkeletonBuilt == InEvents("model_class")

\* C4: when the persisted weight-only config has weight_dtype unset, the
\* reload resolves weight_dtype to int4_clip if bits is 4 and to int8 if
\* bits is 8.
C4_UnsetWeightDtypeFromBits ==
    (/\ pc \in AfterWeight
     /\ config.saved.quant_method \in WOQTags
     /\ config.saved.weight_dtype = NULL)
        => /\ config.saved.bits = 4
                => quantization_config.weight_dtype = "int4_clip"
           /\ config.saved.bits = 8
                => quantization_config.weight_dtype = "int8"

\* C4 witness: a mapping with bits 8 and no weight_dtype was reloaded and
\* the returned model's config says int8
C4_Witness ==
    /\ pc = "returned"
    /\ config.saved.weight_dtype = NULL
    /\ config.saved.bits = 8
    /\ model.qc.weight_dtype = "int8"

\* a direct reload of a weight-only mapping whose weight_dtype is unset and
\* whose bits is neither 4 nor 8
OtherBitsCall ==
    /\ config.saved.quant_method \in WOQTags
    /\ config.saved.weight_dtype = NULL
    /\ config.saved.bits \notin {4, 8}

\* C5 as stated: with weight_dtype unset and bits other than 4 or 8 the
\* reload fails: no skeleton is built and no model is returned.
C5_AsStated == OtherBitsCall => (~SkeletonBuilt /\ pc # "returned")

\* C5 amended: with weight_dtype unset and bits other than 4 or 8 the reload
\* logs a warning, resolves weight_dtype to int4_clip and goes on to build
\* the skeleton; the weight_dtype step raises nothing.
C5_OtherBitsFallBack ==
    OtherBitsCall =>
        /\ llb.error # "ValueError"
        /\ pc \in AfterWeight
              => /\ quantization_config.weight_dtype = "int4_clip"
                 /\ LastEvent = "log_warning" \/ SkeletonBuilt
                 /\ InEvents("log_warning")
        /\ pc = "returned" => model.qc.weight_dtype = "int4_clip"

\* C5 witness: a mapping with bits 3 and no weight_dtype came back as an
\* int4_clip model after the warning
C5_Witness ==
    /\ pc = "returned"
    /\ config.saved.weight_dtype = NULL
    /\ config.saved.bits = 3
    /\ model.qc.weight_dtype = "int4_clip"
    /\ InEvents("log_warning")
    /\ SkeletonBuilt

\* C6: when the persisted config has weight_dtype set, a recognised value is
\* kept whatever bits says, and any other value makes the reload raise
\* before a skeleton is constructed.
C6_SetWeightDtypeWins ==
    (config.saved.quant_method \in WOQTags /\ config.saved.weight_dtype # NULL)
        => IF config.saved.weight_dtype \in RecognisedWeightDtypes
           THEN /\ pc \in AfterWeight
                     => quantization_config.weight_dtype
                           = config.saved.weight_dtype
                /\ pc = "returned"
                     => model.qc.weight_dtype = config.saved.weight_dtype
           ELSE /\ ~SkeletonBuilt
                /\ model = NoModel
                /\ pc \notin AfterWeight
                /\ pc = "raised" /\ llb.where = "dir" /\ llb.files = {"bin"}
                     /\ ~llb.both_tokens /\ llb.torch_dtype # "half"
                     => llb.error = "ValueError"

\* C6 witness: weight_dtype nf4 persisted beside a conflicting bits 8 came
\* back as nf4
C6_Witness ==
    /\ pc = "returned"
    /\ config.saved.weight_dtype = "nf4"
    /\ config.saved.bits = 8
    /\ model.qc.weight_dtype = "nf4"

\* an unrecognised weight_dtype stopped the reload with ValueError
C6_WitnessRejected ==
    /\ pc = "raised"
    /\ config.saved.weight_dtype = "fp4"
    /\ llb.error = "ValueError"

--------------------------------------------------------------------------
(* Properties of build_woq_model *)

\* the qualified name n has 'lm_head', 'output_layer' or 'embed_out' in it
HasHeadSubstring(n) ==
    \E i \in 1..Len(n), j \in 1..Len(n) :
        SubSeq(n, i, j) \in {<<"lm", "_", "head">>, <<"output", "_", "layer">>,
                             <<"embed", "_", "out">>}

\* module r is the packed layer standing for the dense linear layer m
PackedLike(r, m) ==
    /\ r.kind = "WeightOnlyLinear"
    /\ r.in_features = m.in_features
    /\ r.out_features = m.out_features
    /\ r.bias = m.bias

\* C7: build_woq_model replaces every Linear whose qualified name has none of
\* lm_head, output_layer, embed_out in it by a packed layer of the same
\* in_features, out_features and bias presence, and leaves every other
\* module as it was; so the skeleton load_low_bit builds with it keeps
\* lm_head dense while the other linear layers are packed.
C7_HeadsStayDense ==
    /\ pc = "bwm_returned" =>
          /\ DOMAIN tree = DOMAIN walk.given
          /\ \A n \in DOMAIN tree :
                IF walk.given[n].kind = "Linear" /\ ~HasHeadSubstring(n)
                THEN PackedLike(tree[n], walk.given[n])
                ELSE tree[n] = walk.given[n]
    /\ (pc = "llb_state_dict" /\ InEvents("build_woq_model")) =>
          /\ model.modules[lm_head] = Arch[lm_head]
          /\ \A n \in DOMAIN Arch :
                (Arch[n].kind = "Linear" /\ n # lm_head)
                    => PackedLike(model.modules[n], Arch[n])

\* C7 witness: in one returned tree the Linear named model.lm_head is still
\* dense and the Linear named lm.head is packed
C7_Witness ==
    /\ pc = "bwm_returned"
    /\ <<"model", ".", "lm", "_", "head">> \in DOMAIN tree
    /\ <<"lm", ".", "head">> \in DOMAIN tree
    /\ walk.given[<<"lm", ".", "head">>].kind = "Linear"
    /\ tree[<<"model", ".", "lm", "_", "head">>].kind = "Linear"
    /\ tree[<<"lm", ".", "head">>].kind = "WeightOnlyLinear"

--------------------------------------------------------------------------
(* Properties of the calibration pipeline *)

\* C9 as stated: for every record length and every architecture, a batch has
\* at most calib_len tokens without padding and exactly calib_len with it.
C9_AsStated ==
    pc = "cal_batch" =>
        IF calib.calib_padding
        THEN Len(calib.input_ids) = calib.calib_len
        ELSE Len(calib.input_ids) <= calib.calib_len

\* the batches of collate_batch (every path, every model but SmoothQuant's
\* chatglm) keep the bound, and a cut record keeps its first calib_len tokens
CollateBatchBounded ==
    (pc = "cal_batch" /\ ~UsesChatglmCollate) =>
        /\ IF calib.calib_padding
           THEN Len(calib.input_ids) = calib.calib_len
           ELSE Len(calib.input_ids) <= calib.calib_len
        /\ calib.record_len > calib.calib_len
              => calib.input_ids = SubSeq(calib.example, 1, calib.calib_len)

\* a chatglm-6b batch without padding that is longer than calib_len
ChatglmOverlong ==
    /\ pc = "cal_batch"
    /\ UsesChatglmCollate
    /\ ~calib.calib_padding
    /\ Len(calib.input_ids) > calib.calib_len

\* C10: tokenize_function tokenizes a record from whichever of code, prompt,
\* text it has; a record with none of them ends the process with a logged
\* error and yields no tokenized example.
C10_TokenizeField ==
    pc # "cal_tokenize" =>
        IF calib.fields = {}
        THEN /\ pc = "exited"
             /\ LastEvent = "log_error"
             /\ calib.example = <<>>
             /\ calib.source = NULL
        ELSE /\ pc # "exited"
             /\ calib.source \in calib.fields
             /\ calib.example = Tokenizer(calib.source, calib.record_len)
             /\ calib.fields = {"prompt"} => calib.source = "prompt"

\* C10 witness: a record with only prompt was tokenized from prompt
C10_Witness ==
    /\ pc = "cal_collate"
    /\ calib.fields = {"prompt"}
    /\ calib.source = "prompt"
    /\ calib.example = Tokenizer("prompt", calib.record_len)

\* a record with none of the three fields ended the process
C10_WitnessNoField ==
    /\ pc = "exited"
    /\ calib.fields = {}
    /\ calib.example = <<>>

--------------------------------------------------------------------------
(* Properties of the save / reload round trip *)

\* names of the packed layers of a module graph
PackedNames(t) ==
    {n \in DOMAIN t : t[n].kind \in {"WeightOnlyLinear", "QuantizedLinearQBits",
                                     "WeightOnlyQuantizedLinear"}}

\* what C8 compares of a packed layer
LayerShape(m) == <<m.in_features, m.out_features, m.bits, m.group_size>>

\* a model saved by save_low_bit was loaded again by load_low_bit
RoundTripDone ==
    /\ pc = "returned"
    /\ model.kind = "low_bit"
    /\ disk.files # {}

C8_WitnessExempt ==
    /\ RoundTripDone
    /\ model.qc.weight_dtype = "nf4"
    /\ ~InEvents("recover_export_model")
    /\ PackedNames(model.modules) # {}

--------------------------------------------------------------------------
(* Properties of from_pretrained on a saved checkpoint *)

\* the checkpoint's config carries a non-null quantization_config
SavedCheckpoint == config.has_qc = "dict"

\* the pathways that rebuild a model from persisted artifacts
ReloadPaths == {"load_low_bit", "neural_speed_load"}

\* steps of the calibration and quantization pathways
QuantizationEvents ==
    {"dense_load", "dense_load_low_mem", "float_cast", "ipex_optimize",
     "load_dataset", "tokenize", "dataloader", "default_func", "fit",
     "convert_to_quantized_model", "prepare_compression", "train_func",
     "orig_from_pretrained"}

\* C11 as stated: on a checkpoint with a saved quantization_config no
\* calibration or quantization pathway runs, and the call ends either with a
\* model returned by load_low_bit or the Neural Speed loader or with the
\* process terminated.
C11_AsStated ==
    SavedCheckpoint =>
        /\ \A i \in 1..Len(pathways) : pathways[i] \in ReloadPaths
        /\ Done => pc \in {"returned", "exited"}

\* C11 amended: on a checkpoint with a saved quantization_config, whatever
\* quantization_config the caller passes, the dispatch (lines 482-1343, where
\* load_in_4bit and load_in_8bit are first read) is never entered and no
\* calibration or quantization step runs; a returned model comes from
\* load_low_bit or the Neural Speed loader; a load_low_bit failure is logged
\* and terminates the process; a failure in the Neural Speed branch
\* (KeyError, AssertionError, AttributeError) is raised to the caller.
C11_SavedSkipsQuantization ==
    SavedCheckpoint =>
        /\ pc \notin {"fp_flags", "fp_load_in", "fp_dispatch"}
        /\ \A i \in 1..Len(pathways) : pathways[i] \in ReloadPaths
        /\ \A e \in QuantizationEvents : ~InEvents(e)
        /\ pc = "returned" => ReturnedBy(ReloadPaths)
        /\ pc = "exited" => (llb.error # NULL /\ LastEvent = "log_error")
        /\ pc = "raised" =>
              /\ use_neural_speed
              /\ llb = NoLlb
              /\ LastEvent \in {"KeyError", "AssertionError", "AttributeError"}

\* C11 witness: the caller passed a SmoothQuant config, the checkpoint was a
\* saved one and load_low_bit returned the model without any calibration
C11_Witness ==
    /\ SavedCheckpoint
    /\ kwargs.quantization_config = "sq"
    /\ ReturnedBy({"load_low_bit"})
    /\ model.kind = "low_bit"
    /\ ~InEvents("fit")

\* the Neural Speed branch let an exception through to the caller
C11_WitnessRaised ==
    /\ SavedCheckpoint
    /\ pc = "raised"
    /\ LastEvent = "AssertionError"

--------------------------------------------------------------------------
(* Properties of load_low_bit: config resolution and the returned model *)

\* the persisted mapping's quant_method entry is absent or names no
\* recognised method
UnknownMethod ==
    config.has_qc = "dict"
    /\ config.saved.quant_method \notin WOQTags \cup FXTags

\* C12 as stated: a persisted mapping whose quant_method is absent or not a
\* recognised tag makes the reload fail at config resolution, before any
\* checkpoint file is resolved and before a skeleton is built.
C12_AsStated ==
    UnknownMethod =>
        /\ pc \in {"llb_entry", "raised", "exited"}
        /\ ~InEvents("resolve_checkpoint")
        /\ ~SkeletonBuilt

\* what the reload does with such a mapping: no model class is instantiated
\* and no model is returned; an absent entry raises KeyError at line 1435, an
\* unknown tag goes through file resolution and raises AttributeError at 1695
UnknownMethodFailsLate ==
    UnknownMethod =>
        /\ ~SkeletonBuilt
        /\ pc # "returned"
        /\ (pc = "raised" /\ llb = [PlainFrame EXCEPT !.error = llb.error]) =>
              IF config.saved.quant_method = "missing"
              THEN llb.error = "KeyError" /\ ~InEvents("resolve_checkpoint")
              ELSE llb.error = "AttributeError"
                   /\ InEvents("resolve_checkpoint")

\* C13 as stated: every model load_low_bit returns has its parameters frozen,
\* carries the resolved quantization_config and has save_low_bit bound as
\* save_pretrained, for every persisted quant_method.
C13_AsStated ==
    pc = "returned" =>
        /\ ~model.requires_grad
        /\ model.has_qc = "set"
        /\ model.qc = quantization_config
        /\ model.save_pretrained = "save_low_bit"

\* the weight-only half of C13: a model returned for rtn, awq, teq, gptq or
\* autoround is frozen, tagged and bound, with or without a generation config
WeightOnlyReloadFinished ==
    (pc = "returned" /\ quantization_config.quant_method \in WOQTags) =>
        /\ ~model.requires_grad
        /\ model.has_qc = "set"
        /\ model.qc = quantization_config
        /\ model.save_pretrained = "save_low_bit"

\* a static, dynamic or qat model came back as neural_compressor's load made it
FxReloadUnfinished ==
    /\ pc = "returned"
    /\ quantization_config.quant_method \in FXTags
    /\ model.requires_grad
    /\ model.has_qc = "unset"
    /\ model.save_pretrained = "plain"

\* a weight-only model came back although no generation config was found
NoGenerationConfigReturned ==
    /\ pc = "returned"
    /\ ~llb.has_generation
    /\ ~InEvents("generation_config")
    /\ model.save_pretrained = "save_low_bit"

--------------------------------------------------------------------------
(* Properties of save_low_bit *)

\* a save_low_bit call on a model that is not a PyTorchFXModel, with a
\* save_directory that is not an existing file, has returned
PlainSaveReturned ==
    /\ pc = "slb_returned"
    /\ model.kind # "fx_quantized"
    /\ ~slb.is_file

\* C14: during save_low_bit on a non-FX model the wrapped save_pretrained is
\* called once, at a moment when the instance has no save_low_bit binding,
\* so save_low_bit is never entered from inside itself; when save_low_bit
\* returns, save_pretrained on the instance is bound to save_low_bit again;
\* the same holds for each of several consecutive saves of one model.  (A
\* call whose save_directory is an existing file returns at line 217 before
\* any of this: it makes no save and leaves the binding as it was.)
C14_DetachedPlainSave ==
    /\ slb.depth = 0
    /\ ~InEvents("RecursionError")
    /\ slb.plain_saves <= 1
    /\ pc = "slb_write" =>
          (model.save_pretrained = "plain" /\ slb.plain_saves = 0)
    /\ pc = "slb_rebind" =>
          (model.save_pretrained = "plain" /\ slb.plain_saves = 1)
    /\ pc = "slb_returned" => model.save_pretrained = "save_low_bit"
    /\ PlainSaveReturned => slb.plain_saves = 1
    /\ (pc = "slb_returned" /\ slb.is_file) => slb.plain_saves = 0

\* C14 witness: the third consecutive save of a weight-only model returned,
\* having made its one plain save, with save_low_bit bound again
C14_Witness ==
    /\ PlainSaveReturned
    /\ model.kind = "weight_only"
    /\ slb.saves + 1 = MaxSaves
    /\ slb.saves >= 1
    /\ slb.plain_saves = 1
    /\ InEvents("del_save")
    /\ InEvents("save_pretrained")
    /\ model.save_pretrained = "save_low_bit"

\* a save_low_bit call with a save_directory that is not an existing file
\* has returned
SaveReturned == pc = "slb_returned" /\ ~slb.is_file

\* C15 as stated: every save_low_bit call that returns, on a directory that
\* is not an existing file, has written the model artifacts, the manifest
\* all_checkpoint_keys.json listing exactly the names of the model's state
\* dict, and the quantization config, for FX models too.
C15_AsStated ==
    SaveReturned =>
        /\ disk.files # {}
        /\ disk.manifest
        /\ disk.keys = DOMAIN model.modules
        /\ disk.qc_json

\* C15 amended: such a call on a model that is not a PyTorchFXModel has
\* written the model artifacts (config.json and the weights), the manifest
\* listing exactly the names of the model's state dict, and the quantization
\* config; on a PyTorchFXModel it has written the quantization config,
\* config.json with the config embedded and the weights file, and no manifest.
C15_SaveWritesArtifacts ==
    /\ PlainSaveReturned =>
          /\ disk.files # {}
          /\ disk.weights = model.modules
          /\ disk.has_qc = "dict"
          /\ disk.qc = model.qc
          /\ disk.manifest
          /\ disk.keys = DOMAIN model.modules
          /\ disk.qc_json
    /\ (SaveReturned /\ model.kind = "fx_quantized") =>
          /\ disk.files = {"bin"}
          /\ disk.has_qc = "dict"
          /\ disk.qc = model.qc
          /\ disk.qc_json
          /\ ~disk.manifest

\* C15 witness: a weight-only model was saved: weights, the manifest with
\* the three names of its state dict and the config document are there
C15_Witness ==
    /\ PlainSaveReturned
    /\ model.kind = "weight_only"
    /\ disk.files = {"safe"}
    /\ disk.manifest
    /\ disk.keys = DOMAIN Arch
    /\ disk.qc_json

\* the save of a StaticQuant model returned without a manifest
C15_WitnessFx ==
    /\ SaveReturned
    /\ model.kind = "fx_quantized"
    /\ disk.qc_json
    /\ ~disk.manifest

--------------------------------------------------------------------------
(* Properties of the dispatch on a dense checkpoint *)

\* the paths on which calibration or training inputs are mandatory
CalibratedPaths == {"smooth_quant", "static_quant", "quant_aware_training"}

\* a SmoothQuant, StaticQuant or QAT call ended the process: on these paths
\* that is the exit(0) taken when the config has neither a calibration /
\* training function nor a tokenizer (lines 763-771, 1045-1053, 1184-1192)
MissingCalibExit ==
    /\ pc = "exited"
    /\ pathways # <<>>
    /\ pathways[Len(pathways)] \in CalibratedPaths

C17_WitnessOptimized ==
    /\ MissingCalibExit
    /\ InEvents("ipex_optimize")
    /\ InEvents("float_cast")

\* a from_pretrained call without quantization_config, with both flags false,
\* on a checkpoint without a saved quantization_config, has got past the
\* point where the flags are read (line 482)
PlainCall ==
    /\ kwargs.quantization_config = NULL
    /\ ~kwargs.load_in_4bit
    /\ ~kwargs.load_in_8bit
    /\ config.has_qc # "dict"
    /\ pc \in {"fp_dispatch", "returned", "exited", "raised"}
    /\ ~kwargs.model_file
    /\ ~kwargs.use_embedding_runtime

\* neither runtime keyword was given
NoRuntimeKwargs ==
    kwargs.use_llm_runtime = NULL /\ kwargs.use_neural_speed = NULL

\* C16 as stated: such a call returns the dense model loaded by the wrapped
\* model-loading API, unmodified, for every model type and device.
C16_AsStated ==
    (PlainCall /\ pc = "returned") =>
        /\ model.kind = "dense"
        /\ ~model.float_cast

\* C16 amended: such a call runs the plain-load pathway alone.  When the
\* Neural Speed runtime is not in effect (device_map xpu, a runtime keyword
\* set to False, or no runtime keyword and a model type outside
\* model_type_list) it returns the dense model loaded by the wrapped API, in
\* evaluation mode, without quantization_config and without save_low_bit,
\* cast to float only for chatglm; when the runtime is in effect (asked for
\* by keyword, or by default for a model type in model_type_list, and never
\* on xpu) it returns a Neural Speed fp32 model whose quantization_config is
\* None.  No exception is raised; the process exits only when the config has
\* no model_type and no runtime keyword was given.
C16_PlainLoad ==
    PlainCall =>
        /\ pc # "raised"
        /\ pc = "exited" => (config.model_type = "missing" /\ NoRuntimeKwargs)
        /\ pc = "returned" =>
              /\ pathways = <<"plain_load">>
              /\ model.save_pretrained # "save_low_bit"
              /\ model.has_qc # "set"
              /\ model.kind \in {"dense", "neural_speed"}
              /\ (model.kind = "neural_speed") = use_neural_speed
              /\ model.kind = "neural_speed" =>
                    /\ ~use_xpu
                    /\ model.has_qc = "None"
                    /\ RuntimeRequested
                       \/ (NoRuntimeKwargs /\ config.model_type \in model_type_list)
              /\ model.kind = "dense" =>
                    /\ model.eval_mode
                    /\ model.modules = NoTree
                    /\ model.float_cast => config.model_type = "chatglm"
                    /\ ~NoRuntimeKwargs \/ use_xpu
                       \/ config.model_type \notin model_type_list

\* C16 witness: a t5 checkpoint on the CPU came back as the dense model
C16_Witness ==
    /\ PlainCall
    /\ pc = "returned"
    /\ config.model_type = "t5"
    /\ use_cpu
    /\ model.kind = "dense"
    /\ ~model.float_cast
    /\ pathways = <<"plain_load">>

\* a llama checkpoint with no keyword at all came back as a Neural Speed model
C16_WitnessRuntime ==
    /\ PlainCall
    /\ pc = "returned"
    /\ NoRuntimeKwargs
    /\ config.model_type = "llama"
    /\ model.kind = "neural_speed"

--------------------------------------------------------------------------
(* Properties of load_low_bit: file resolution and compute_dtype *)

\* the checkpoint location holds no weights file load_low_bit can use: a
\* local directory with none of the four weight or index files, or a
\* repository where the lookups of lines 1569-1646 find none
NoWeightsFile ==
    /\ pc # "llb_entry"
    /\ config.has_qc = "dict"
    /\ llb.where \in {"dir", "hub"}
    /\ ResolveArchive(llb.where, llb.files, llb.use_safetensors).status # "ok"

\* C18 as stated: when no weights file is found, load_low_bit fails with an
\* explicit environment / IO error and never with an unrelated internal
\* error, and it returns no model.  (ValueError is the earlier rejection of
\* token together with use_auth_token.)
C18_AsStated ==
    NoWeightsFile =>
        /\ pc # "returned"
        /\ llb.error \in {NULL, "EnvironmentError", "ValueError"}

\* what holds: no model class is instantiated and no model is returned; a
\* repository without weights raises EnvironmentError, a local directory
\* without weights raises UnboundLocalError at line 1661
NoWeightsFileOutcome ==
    (NoWeightsFile /\ ~llb.both_tokens /\ pc # "llb_resolve") =>
        /\ pc = "raised"
        /\ ~SkeletonBuilt
        /\ model = NoModel
        /\ llb.error = IF llb.where = "dir" THEN "UnboundLocalError"
                       ELSE "EnvironmentError"

\* a local directory without any weights file ended in UnboundLocalError
LocalDirUnbound ==
    /\ NoWeightsFile
    /\ llb.where = "dir"
    /\ llb.files = {}
    /\ llb.error = "UnboundLocalError"

\* load_low_bit is about to make, or has made, its first layer replacement
\* (build_woq_model or replace_linear, lines 1791-1805)
AtFirstReplacement == pc \in {"llb_skeleton", "llb_state_dict"}

\* the device the layers are created on: line 1803 reads device_map "auto"
\* as the CPU
TargetIsCpu == llb.device_map \in {"cpu", "auto"}

\* C19 as stated: when the first layer replacement is invoked, compute_dtype
\* is a concrete value the host supports: never bf16 on a host without
\* native bf16, never fp16 when the target is the CPU.
C19_AsStated ==
    AtFirstReplacement =>
        /\ quantization_config.compute_dtype # NULL
        /\ quantization_config.compute_dtype = "bf16" => llb.cpu_bf16
        /\ quantization_config.compute_dtype = "fp16" => ~TargetIsCpu

\* what holds: compute_dtype is concrete, never bf16 without native bf16,
\* never fp16 when device_map is "cpu" or when the persisted value was unset
\* off xpu; a persisted fp16 is kept when device_map is "auto"
ComputeDtypeResolved ==
    AtFirstReplacement =>
        /\ quantization_config.compute_dtype # NULL
        /\ quantization_config.compute_dtype = "bf16" => llb.cpu_bf16
        /\ quantization_config.compute_dtype = "fp16" =>
              \/ llb.device_map = "xpu"
              \/ (llb.device_map = "auto" /\ config.saved.compute_dtype = "fp16")

\* with the default device_map a persisted fp16 reached the first layer
\* replacement on the CPU
Fp16OnCpu ==
    /\ AtFirstReplacement
    /\ llb.device_map = "auto"
    /\ quantization_config.compute_dtype = "fp16"
    /\ InEvents("build_woq_model")

--------------------------------------------------------------------------
(* Properties of the Neural Speed runtime *)

\* post_init_runtime has been applied to the config of the running call
RuntimeHookApplied ==
    \E i \in 1..Len(quantization_config.hooks) :
        quantization_config.hooks[i] = "post_init_runtime"

\* a saved checkpoint whose persisted quant_method is awq, teq, gptq or
\* autoround, met with the Neural Speed runtime in effect
SavedNonRtnOnRuntime ==
    /\ SavedCheckpoint
    /\ use_neural_speed
    /\ pc \notin {"fp_entry", "fp_runtime", "fp_saved"}
    /\ config.saved.quant_method \in WOQTags \ {"rtn"}

\* C20 as stated: post_init_runtime is applied only to a config with the RTN
\* tag; a saved awq, teq, gptq or autoround checkpoint loaded with the
\* Neural Speed runtime in effect fails fast, without post_init_runtime and
\* without a Neural Speed model initialised.
C20_AsStated ==
    /\ RuntimeHookApplied => quantization_config.quant_method = "rtn"
    /\ SavedNonRtnOnRuntime =>
          /\ ~InEvents("post_init_runtime")
          /\ ~InEvents("ns_init")
          /\ pc # "returned"

\* C20 amended: on a dense checkpoint post_init_runtime is applied only to an
\* RTN config and any other weight-only tag with the runtime in effect ends
\* the process.  On a saved checkpoint with the runtime in effect and no
\* config passed by the caller, the persisted config of any of the five
\* weight-only tags is rebuilt, post_init_runtime is applied to it and a
\* Neural Speed model tagged with it is returned; a config passed by the
\* caller is used as it is, without post_init_runtime.
C20_RuntimeHook ==
    /\ (DenseCheckpoint /\ RuntimeHookApplied) =>
          quantization_config.quant_method = "rtn"
    /\ (DenseCheckpoint /\ pc = "returned" /\ model.kind = "neural_speed"
          /\ model.has_qc = "set") => model.qc.quant_method = "rtn"
    /\ (SavedCheckpoint /\ RuntimeHookApplied) =>
          /\ use_neural_speed
          /\ kwargs.quantization_config = NULL
          /\ quantization_config.quant_method = config.saved.quant_method
          /\ quantization_config.quant_method \in WOQTags
          /\ pc = "returned"
          /\ model = AttachConfig(NeuralSpeedModel, quantization_config)
    /\ SavedNonRtnOnRuntime =>
          /\ pc # "exited"
          /\ pc = "raised" => kwargs.quantization_config # NULL
          /\ pc = "returned" =>
                /\ model.kind = "neural_speed"
                /\ RuntimeHookApplied = (kwargs.quantization_config = NULL)

\* C20 witness: a saved AWQ checkpoint met the runtime: post_init_runtime
\* was applied to the AWQ config and a Neural Speed model came back
C20_Witness ==
    /\ SavedNonRtnOnRuntime
    /\ config.saved.quant_method = "awq"
    /\ pc = "returned"
    /\ model.kind = "neural_speed"
    /\ model.qc.quant_method = "awq"
    /\ model.qc.hooks = <<"post_init_runtime">>

\* on a dense checkpoint an AWQ config with the runtime ended the process
C20_WitnessDense ==
    /\ DenseCheckpoint
    /\ use_neural_speed
    /\ quantization_config.quant_method = "awq"
    /\ pc = "exited"

--------------------------------------------------------------------------
(* Properties of the MixedPrecision path *)

\* how many times step e occurs in the running call
CountEvents(e) == Cardinality({i \in 1..Len(events) : events[i] = e})

\* the MixedPrecision path has run and the call is over
MixedDone ==
    /\ Done
    /\ pathways = <<"mixed_precision">>

\* the first failure the path met, NULL if it met none
FirstFailure ==
    IF Len(events) >= 2 /\ events[1] = "dense_load_low_mem"
       /\ events[2] \in {"NotImplementedError", "OSError"}
    THEN events[2] ELSE NULL

\* C21: the MixedPrecision path first tries the dense load with the
\* low-memory strategy; it tries once more, with the higher-memory strategy,
\* if and only if the first attempt failed with NotImplementedError; a
\* returned model records under low_cpu_mem_usage the strategy that worked;
\* any other failure leaves the path without a retry; no linear layer is
\* replaced.
C21_MixedPrecisionRetry ==
    MixedDone =>
        /\ events[1] = "dense_load_low_mem"
        /\ CountEvents("dense_load_low_mem") = 1
        /\ CountEvents("dense_load") <= 1
        /\ (CountEvents("dense_load") = 1)
              = (FirstFailure = "NotImplementedError")
        /\ ~InEvents("convert_to_quantized_model")
        /\ ~InEvents("replace_linear")
        /\ pc # "exited"
        /\ pc = "returned" =>
              /\ model.low_cpu_mem_usage =
                    (IF CountEvents("dense_load") = 1 THEN "False" ELSE "True")
              /\ model.modules = Arch
              /\ \A n \in DOMAIN model.modules :
                    model.modules[n].kind \in {"Linear", "Other"}
              /\ FirstFailure \in {NULL, "NotImplementedError"}
        /\ pc = "raised" =>
              /\ model = NoModel
              /\ LastEvent \in {"NotImplementedError", "OSError"}
              /\ FirstFailure = "OSError" => Len(events) = 2

\* C21 witness: the low-memory load was unsupported, the second load worked
\* and the model records low_cpu_mem_usage False
C21_Witness ==
    /\ MixedDone
    /\ pc = "returned"
    /\ events = <<"dense_load_low_mem", "NotImplementedError", "dense_load",
                  "to_cpu", "eval">>
    /\ model.low_cpu_mem_usage = "False"

\* another failure of the first load left the path at once
C21_WitnessNoRetry ==
    /\ MixedDone
    /\ pc = "raised"
    /\ events = <<"dense_load_low_mem", "OSError">>

--------------------------------------------------------------------------
(* Properties of the in-memory model across saves *)

\* C22: after any sequence of save_low_bit calls on a quantized model, every
\* packed layer is what it was before the first save: same class, same
\* weight layout (transposed flag), same parameters.
C22_AsStated ==
    (pc = "slb_returned" /\ model.kind = "weight_only") =>
        \A n \in PackedNames(slb.before) :
            /\ n \in DOMAIN model.modules
            /\ model.modules[n] = slb.before[n]

\* the first save of a CPU model with a weight_dtype outside the exempt
\* list returned and left portable-format layers in the in-memory model
PackedLayersReplaced ==
    /\ pc = "slb_returned"
    /\ slb.saves = 0
    /\ model.device = "cpu"
    /\ \E n \in PackedNames(slb.before) :
          /\ slb.before[n].kind = "QuantizedLinearQBits"
          /\ model.modules[n].kind = "WeightOnlyLinear"

\* the save of an xpu model returned and left its layers untransposed
PackedLayersUntransposed ==
    /\ pc = "slb_returned"
    /\ model.device = "xpu"
    /\ \E n \in PackedNames(slb.before) :
          /\ slb.before[n].transposed
          /\ ~model.modules[n].transposed

--------------------------------------------------------------------------
(* The default calibration function and the default training loop *)

\* most iterations a config asks for (calib_iters / train_iters)
MaxIters == 3

\* most records the tokenized dataset holds
MaxRecords == 3

\* most invocations of one default function
MaxCalls == 2

\* the batch sizes a loader is built with
BatchSizes == {1, 2}

\* len(DataLoader(dataset, batch_size)): drop_last is off, so a last short
\* batch counts
NumBatches(records, batch_size) == (records + batch_size - 1) \div batch_size

\* LoopContinues with the test `i > iters`
LoopContinuesOffByOne(i, iters) == ~(i > iters)

\* lines 912-913, 1132-1133, 1273-1274: `if i >= iters: break`
LoopContinues(i, iters) == ~(i >= iters)

Min(a, b) == IF a <= b THEN a ELSE b

\* a default function before its first invocation: the path, the iters
\* setting, the loader's batches; i is enumerate's index, pos the number of
\* batches the running iterator has yielded, seen the batches (numbered from
\* 0) the model was run on in the running invocation, calls the invocations
\* that have returned and last what the previous invocation ran on
LoopRuns ==
    [op : {"loop"},
     path : {"smooth_quant", "static_quant", "quant_aware_training"},
     iters : 0..MaxIters,
     records : 0..MaxRecords,
     batch_size : BatchSizes,
     i : {0}, pos : {0}, seen : {<<>>}, calls : {0}, last : {<<>>}]

\* lines 896-907, 1122-1127: the calibration loaders have batch_size 1;
\* lines 1261-1266: the training loader has train_batch_size
LoaderBatches ==
    NumBatches(calib.records,
               IF calib.path = "quant_aware_training" THEN calib.batch_size
               ELSE 1)

\* calib_func(model) / train_func(model) is called: enumerate() makes a new
\* iterator over the loader (shuffle=False), which starts at the first batch
IT_Call ==
    /\ pc = "it_idle"
    /\ calib.calls < MaxCalls
    \* line 1307 calls train_func once; neural_compressor may call
    \* calib_func again
    /\ calib.path = "quant_aware_training" => calib.calls = 0
    /\ pc' = "it_loop"
    /\ calib' = [calib EXCEPT !.i = 0, !.pos = 0, !.seen = <<>>]
    /\ UNCHANGED <<kwargs, config, use_neural_speed, quantization_config, model,
                   pathways, events, llb, tree, walk>>
    /\ UNCHANGED saveVars

\* lines 911-926, 1131-1134, 1272-1285: the for statement asks the iterator
\* for the next batch; with one in hand the break test comes before the
\* model is run
IT_Step ==
    /\ pc = "it_loop"
    /\ IF calib.pos >= LoaderBatches
       THEN /\ pc' = "it_done"
            /\ UNCHANGED calib
       ELSE IF ~LoopContinues(calib.i, calib.iters)
       THEN /\ pc' = "it_done"
            /\ calib' = [calib EXCEPT !.pos = @ + 1]
       ELSE /\ pc' = "it_loop"
            /\ calib' = [calib EXCEPT !.pos = @ + 1, !.i = @ + 1,
                                      !.seen = Append(@, calib.pos)]
    /\ UNCHANGED <<kwargs, config, use_neural_speed, quantization_config, model,
                   pathways, events, llb, tree, walk>>
    /\ UNCHANGED saveVars

\* the function returns (train_func: line 1286)
IT_Return ==
    /\ pc = "it_done"
    /\ pc' = "it_idle"
    /\ calib' = [calib EXCEPT !.calls = @ + 1, !.last = calib.seen]
    /\ UNCHANGED <<kwargs, config, use_neural_speed, quantization_config, model,
                   pathways, events, llb, tree, walk>>
    /\ UNCHANGED saveVars

IterateNext == IT_Call \/ IT_Step \/ IT_Return

InitIterate ==
    /\ pc = "it_idle"
    /\ calib \in {c \in LoopRuns :
                    c.path # "quant_aware_training" => c.batch_size = 1}
    /\ kwargs = NoKwargs
    /\ config = NoCheckpoint
    /\ use_neural_speed = FALSE
    /\ quantization_config = NoConfig
    /\ model = NoModel
    /\ pathways = <<>>
    /\ events = <<>>
    /\ llb = NoLlb
    /\ tree = NoTree
    /\ walk = NoWalk
    /\ slb = NoSlb
    /\ disk = NoDisk

SpecIterate == InitIterate /\ [][IterateNext]_vars

\* the first n batches of a loader, in order
FirstBatches(n) == [k \in 1..n |-> k - 1]

\* C23: the default calibration function and the default training loop run
\* the model on exactly min(iters, number of batches) batches, the first
\* ones of the loader in order, and then stop; a second invocation of the
\* calibration function starts from the first batch again and runs on the
\* same number of batches.
C23_LoopRunsMinBatches ==
    /\ pc \in {"it_loop", "it_done"} =>
          /\ Len(calib.seen) <= Min(calib.iters, LoaderBatches)
          /\ calib.seen = FirstBatches(Len(calib.seen))
    /\ pc = "it_done" =>
          Len(calib.seen) = Min(calib.iters, LoaderBatches)
    /\ (pc = "it_idle" /\ calib.calls >= 1) =>
          calib.last = FirstBatches(Min(calib.iters, LoaderBatches))
    /\ (pc = "it_done" /\ calib.calls >= 1) => calib.seen = calib.last

\* C23 witness: the second invocation of a calibration function stopped by
\* the iteration limit, having run on the same two batches as the first
C23_Witness ==
    /\ pc = "it_done"
    /\ calib.path = "static_quant"
    /\ calib.calls = 1
    /\ calib.iters = 2
    /\ LoaderBatches = 3
    /\ calib.seen = <<0, 1>>
    /\ calib.last = <<0, 1>>

\* the training loop ran out of batches before the limit: three records in
\* batches of two
C23_WitnessTrain ==
    /\ pc = "it_done"
    /\ calib.path = "quant_aware_training"
    /\ calib.iters = 3
    /\ calib.records = 3
    /\ calib.batch_size = 2
    /\ calib.seen = <<0, 1>>

--------------------------------------------------------------------------
(* Properties of the order of steps *)

\* where step e first occurs in the running call, 0 if it does not
FirstAt(e) ==
    IF InEvents(e)
    THEN CHOOSE i \in 1..Len(events) :
            events[i] = e /\ \A j \in 1..(i - 1) : events[j] # e
    ELSE 0

\* steps a and b both occur, once each, a before b
OnceInOrder(a, b) ==
    /\ CountEvents(a) = 1
    /\ CountEvents(b) = 1
    /\ FirstAt(a) < FirstAt(b)

\* the weight-only path on the module graph returned its model
GraphWeightOnlyReturned ==
    /\ pc = "returned"
    /\ pathways = <<"weight_only">>
    /\ model.kind = "weight_only"

\* a device hook among the steps of the running call
HookRan == InEvents("post_init_cpu") \/ InEvents("post_init_xpu")

\* C24: in the weight-only path without Neural Speed the steps come in this
\* order: dense load, device hook on the config, convert_to_quantized_model,
\* remove_redundant_parameters, attachment of quantization_config and of the
\* save method; the hook is post_init_cpu for a cpu target, post_init_xpu for
\* xpu, and for any other device_map no hook runs and the config goes to
\* the conversion as it is.
C24_WeightOnlyOrder ==
    GraphWeightOnlyReturned =>
        /\ events[1] = "dense_load_low_mem"
        /\ OnceInOrder("dense_load_low_mem", "convert_to_quantized_model")
        /\ OnceInOrder("convert_to_quantized_model",
                       "remove_redundant_parameters")
        /\ OnceInOrder("remove_redundant_parameters", "attach_qc")
        /\ OnceInOrder("attach_qc", "bind_save")
        /\ LastEvent = "bind_save"
        /\ InEvents("post_init_cpu") = use_cpu
        /\ InEvents("post_init_xpu") = use_xpu
        /\ use_cpu => /\ OnceInOrder("dense_load_low_mem", "post_init_cpu")
                      /\ OnceInOrder("post_init_cpu",
                                     "convert_to_quantized_model")
        /\ use_xpu => /\ OnceInOrder("dense_load_low_mem", "post_init_xpu")
                      /\ OnceInOrder("post_init_xpu",
                                     "convert_to_quantized_model")
        /\ InEvents("dense_load") =>
              FirstAt("dense_load") < FirstAt("convert_to_quantized_model")
        /\ quantization_config.hooks =
              DeviceHook \o <<"remove_redundant_parameters">>
        /\ model.has_qc = "set"
        /\ model.save_pretrained = "save_low_bit"

\* C24 witness: an xpu call fell back to the second load, ran post_init_xpu
\* and then converted
C24_Witness ==
    /\ GraphWeightOnlyReturned
    /\ use_xpu
    /\ InEvents("dense_load")
    /\ FirstAt("post_init_xpu") + 1 = FirstAt("convert_to_quantized_model")

\* a call with another device_map converted without any hook
C24_WitnessNoHook ==
    /\ GraphWeightOnlyReturned
    /\ use_accel
    /\ ~HookRan
    /\ InEvents("convert_to_quantized_model")

\* C24 as stated: for every device_map a device hook runs on the config
\* between the dense load and the conversion.
C24_AsStated ==
    GraphWeightOnlyReturned =>
        /\ HookRan
        /\ \E h \in {"post_init_cpu", "post_init_xpu"} :
              /\ InEvents(h)
              /\ FirstAt("dense_load_low_mem") < FirstAt(h)
              /\ FirstAt(h) < FirstAt("convert_to_quantized_model")


\* the QuantAwareTraining path returned its model
QatReturned ==
    /\ pc = "returned"
    /\ pathways = <<"quant_aware_training">>

\* C25: in the QuantAwareTraining path these steps occur once each and in
\* this order: prepare the compression manager, on_train_begin, the training
\* function (the caller's if the config has one, otherwise the default SGD
\* loop with learning rate 0.0001) on the manager's model, on_train_end,
\* strip the redundant config fields; the returned object is the manager's
\* model, tagged with the config and with save_low_bit bound to it.
C25_QatOrder ==
    QatReturned =>
        /\ OnceInOrder("prepare_compression", "on_train_begin")
        /\ OnceInOrder("on_train_begin", "train_func")
        /\ OnceInOrder("train_func", "on_train_end")
        /\ OnceInOrder("on_train_end", "remove_redundant_parameters")
        /\ InEvents("caller_train_func") # InEvents("SGD(lr=0.0001)")
        /\ InEvents("caller_train_func") = ~InEvents("default_func")
        /\ InEvents("caller_train_func") =>
              /\ OnceInOrder("train_func", "caller_train_func")
              /\ OnceInOrder("caller_train_func", "on_train_end")
              /\ ~InEvents("train_loop")
        /\ InEvents("SGD(lr=0.0001)") =>
              /\ OnceInOrder("default_func", "prepare_compression")
              /\ OnceInOrder("train_func", "SGD(lr=0.0001)")
              /\ OnceInOrder("SGD(lr=0.0001)", "train_loop")
              /\ OnceInOrder("train_loop", "on_train_end")
        /\ model.kind = "fx_quantized"
        /\ model.has_qc = "set"
        /\ model.qc = quantization_config
        /\ quantization_config.hooks = <<"remove_redundant_parameters">>
        /\ model.save_pretrained = "save_low_bit"

\* C25 witness: a call without a train_func of the caller's went through
\* the default loop between the two callbacks and returned the tagged model
C25_Witness ==
    /\ QatReturned
    /\ InEvents("default_func")
    /\ FirstAt("on_train_begin") + 1 = FirstAt("train_func")
    /\ FirstAt("train_loop") + 1 = FirstAt("on_train_end")
    /\ model.save_pretrained = "save_low_bit"

\* the caller's train_func was the one called
C25_WitnessCaller ==
    /\ QatReturned
    /\ InEvents("caller_train_func")
    /\ ~InEvents("default_func")

--------------------------------------------------------------------------
(* recover_export_model on a module tree *)

\* most modules a drawn tree of packed layers holds
MaxPacked == 3

\* qualified names of the modules of the drawn trees: children of the model,
\* of a child, and of a grandchild's child
PackedModuleNames ==
    {<<"fc">>,
     lm_head,
     <<"h", ".", "q">>,
     <<"layer", ".", "0", ".", "mlp">>}

\* an internally packed layer with group permutation g
QBits(inf, outf, bias, bits, gs, g) ==
    [MkModule("QuantizedLinearQBits", inf, outf, bias, bits, gs, FALSE)
        EXCEPT !.g_idx = g]

PackedChoices ==
    {QBits(768, 3072, TRUE, 4, 32, NULL),
     QBits(16, 8, FALSE, 8, 128, "perm"),
     MkModule("WeightOnlyLinear", 16, 8, FALSE, 4, 32, TRUE),
     Linear(16, 8, FALSE),
     OtherModule}

PackedTrees ==
    UNION {[S -> PackedChoices] :
             S \in {T \in SUBSET PackedModuleNames :
                      Cardinality(T) <= MaxPacked}}

\* lines 107-152: named_children() and the recursion yield one module, the
\* loop body runs on it
REM_Visit ==
    /\ pc = "rem_loop"
    /\ \E n \in walk.todo :
         /\ tree' = [tree EXCEPT ![n] = RecoverVisit(@)]
         /\ walk' = [walk EXCEPT !.todo = @ \ {n}]
    /\ UNCHANGED <<pc, kwargs, config, use_neural_speed, quantization_config,
                   model, pathways, events, llb, calib>>
    /\ UNCHANGED saveVars

\* line 153
REM_Return ==
    /\ pc = "rem_loop"
    /\ walk.todo = {}
    /\ pc' = "rem_returned"
    /\ UNCHANGED <<kwargs, config, use_neural_speed, quantization_config, model,
                   pathways, events, llb, tree, walk, calib>>
    /\ UNCHANGED saveVars

RecoverNext == REM_Visit \/ REM_Return

InitRecover ==
    /\ pc = "rem_loop"
    /\ tree \in PackedTrees
    /\ walk = [todo |-> DOMAIN tree, given |-> tree]
    /\ quantization_config = NoConfig
    /\ kwargs = NoKwargs
    /\ config = NoCheckpoint
    /\ use_neural_speed = FALSE
    /\ model = NoModel
    /\ pathways = <<>>
    /\ events = <<>>
    /\ llb = NoLlb
    /\ calib = NoCalib
    /\ slb = NoSlb
    /\ disk = NoDisk

SpecRecover == InitRecover /\ [][RecoverNext]_vars

\* how many name parts lie above module n: 1 for a child of the model
Depth(n) == 1 + Cardinality({i \in 1..Len(n) : n[i] = "."})

\* C26: after recover_export_model on a module tree every internally packed
\* layer, at every depth, has a portable-format layer in its place with the
\* same in_features, out_features, bits, group size and bias presence; every
\* other module is the one that was there; and where the recovered g_idx is
\* present the new layer's g_idx is that permutation.
C26_RecoverReplacesPacked ==
    /\ DOMAIN tree = DOMAIN walk.given
    /\ pc = "rem_returned" =>
          \A n \in DOMAIN tree :
              IF walk.given[n].kind = "QuantizedLinearQBits"
              THEN /\ tree[n].kind = "WeightOnlyLinear"
                   /\ tree[n].in_features = walk.given[n].in_features
                   /\ tree[n].out_features = walk.given[n].out_features
                   /\ tree[n].bits = walk.given[n].bits
                   /\ tree[n].group_size = walk.given[n].group_size
                   /\ tree[n].bias = walk.given[n].bias
                   /\ walk.given[n].g_idx # NULL =>
                         tree[n].g_idx = walk.given[n].g_idx
              ELSE tree[n] = walk.given[n]

\* C26 witness: a tree with packed layers at depth 1 and depth 3, one of them
\* with a permutation, and a dense layer came back with both replaced, the
\* permutation kept and the dense layer untouched
C26_Witness ==
    /\ pc = "rem_returned"
    /\ DOMAIN tree = {<<"fc">>, <<"layer", ".", "0", ".", "mlp">>, lm_head}
    /\ Depth(<<"layer", ".", "0", ".", "mlp">>) = 3
    /\ walk.given[<<"fc">>] = QBits(768, 3072, TRUE, 4, 32, NULL)
    /\ walk.given[<<"layer", ".", "0", ".", "mlp">>]
          = QBits(16, 8, FALSE, 8, 128, "perm")
    /\ walk.given[lm_head] = Linear(16, 8, FALSE)
    /\ tree[<<"fc">>].kind = "WeightOnlyLinear"
    /\ tree[<<"layer", ".", "0", ".", "mlp">>].kind = "WeightOnlyLinear"
    /\ tree[<<"layer", ".", "0", ".", "mlp">>].g_idx = "perm"
    /\ tree[lm_head] = Linear(16, 8, FALSE)

--------------------------------------------------------------------------
(* Properties of the layout decisions of save and reload *)

\* every packed layer of graph t is in the portable export format
Portable(t) ==
    \A n \in PackedNames(t) : t[n].kind = "WeightOnlyLinear"

\* the reload re-packed the layers after the values were bound
RepackedAfterBind ==
    /\ InEvents("load_pretrained_model")
    /\ \E i \in 1..Len(events) :
          /\ events[i] = "replace_linear"
          /\ i > FirstAt("load_pretrained_model")

\* the reload built its skeleton with replace_linear, before any value was
\* read
SkeletonByReplaceLinear ==
    /\ InEvents("replace_linear")
    /\ FirstAt("replace_linear") < FirstAt("load_state_dict")

C27_WitnessXpu ==
    /\ RoundTripDone
    /\ slb.before_dtype = "int4_fullrange"
    /\ \E n \in PackedNames(disk.weights) :
          disk.weights[n].kind = "WeightOnlyQuantizedLinear"
    /\ SkeletonByReplaceLinear
    /\ ~InEvents("build_woq_model")

--------------------------------------------------------------------------
(* Properties of the process default dtype *)

\* a load_low_bit call is over, by a return or by an exception
LoadCallOver ==
    /\ llb # NoLlb
    /\ pc \in {"returned", "raised"}

\* C28: load_low_bit leaves the process default floating-point dtype equal
\* to its value at entry (float32 in every call drawn) on every exit,
\* whether it returns a model or raises.
C28_AsStated == LoadCallOver => llb.default_dtype = "float32"

\* the call raised ValueError for the weight_dtype after it had made
\* bfloat16 or float16 the default, and the default is still that
DefaultDtypeLeftChanged ==
    /\ pc = "raised"
    /\ llb.error = "ValueError"
    /\ llb.dtype_orig = "float32"
    /\ llb.default_dtype \in {"bfloat16", "float16"}

\* the same after a checkpoint file that could not be read
DefaultDtypeLeftChangedUnreadable ==
    /\ pc = "raised"
    /\ llb.error = "OSError"
    /\ InEvents("model_class")
    /\ llb.default_dtype \in {"bfloat16", "float16"}

\* a call that returns a model has put the default back
DefaultDtypeRestoredOnReturn ==
    (llb # NoLlb /\ pc = "returned") => llb.default_dtype = "float32"

--------------------------------------------------------------------------
(* Properties of the SmoothQuant path *)

\* the SmoothQuant path got past the ipex import and version check and past
\* the missing-inputs exit, and the call is over
SmoothQuantOver ==
    /\ Done
    /\ pathways = <<"smooth_quant">>
    /\ InEvents("dense_load_low_mem")
    /\ pc # "exited"

\* C29: in the SmoothQuant path, with calib_func and example_inputs each
\* given or left out and any smooth-quant alpha, the example inputs and the
\* calibration dataloader are defined where they are read, so the
\* quantization fit is always reached.
C29_AsStated ==
    SmoothQuantOver =>
        /\ ~InEvents("UnboundLocalError")
        /\ InEvents("fit")
        /\ pc = "returned"

\* a call with a calib_func of the caller's (no default function was built)
\* ended in UnboundLocalError before the fit
CalibDataloaderUnbound ==
    /\ SmoothQuantOver
    /\ pc = "raised"
    /\ ~InEvents("default_func")
    /\ LastEvent = "UnboundLocalError"
    /\ ~InEvents("fit")

\* with the default calibration function the fit is always reached
DefaultCalibReachesFit ==
    (SmoothQuantOver /\ InEvents("default_func")) =>
        (pc = "returned" /\ InEvents("fit"))

--------------------------------------------------------------------------
(* Properties of save_low_bit with push_to_hub *)

\* a save_low_bit call with push_to_hub true got past the local save and
\* the manifest, and is over
PushSaveOver ==
    /\ slb.push_to_hub
    /\ pc \in {"slb_returned", "raised"}
    /\ LastEvent # "reload"
    /\ InEvents("manifest")

\* C30: save_low_bit with push_to_hub true, for every combination of token
\* and use_auth_token that does not give both, completes without error and
\* has persisted the quantization config in the save directory, as with
\* push_to_hub false.
C30_AsStated ==
    PushSaveOver =>
        /\ pc = "slb_returned"
        /\ disk.qc_json

\* the call raised UnboundLocalError for token after the local save, and
\* the config's own JSON document was not written
PushRaisesUnbound ==
    /\ PushSaveOver
    /\ ~slb.use_auth_token
    /\ pc = "raised"
    /\ LastEvent = "UnboundLocalError"
    /\ disk.manifest
    /\ ~disk.qc_json

\* with use_auth_token given the call raised AttributeError
PushRaisesAttribute ==
    /\ PushSaveOver
    /\ slb.use_auth_token
    /\ pc = "raised"
    /\ LastEvent = "AttributeError"
    /\ ~disk.qc_json

\* with push_to_hub false the same call returns with the config persisted
LocalSavePersistsConfig ==
    (~slb.push_to_hub /\ pc = "slb_returned" /\ InEvents("manifest")) =>
        disk.qc_json

====
